---- MODULE Spec2Model ----
(***************************************************************************)
(* Verification model of the habit-mining core of the smart-automation     *)
(* add-on (AdaptiveAutomation/app): UserActionModel (fit / predict /       *)
(* stats / set_thresholds / to_dict / from_dict), ModelStore (save / load) *)
(* and action_events_from_states.                                          *)
(*                                                                         *)
(* Representation choices                                                  *)
(*  - A Python dict is a sequence of <<key, value>> pairs in insertion     *)
(*    order (dicts iterate in insertion order, and predict's stable sort   *)
(*    makes that order observable).                                        *)
(*  - A datetime is a record [day, hour]; date() is the day number and     *)
(*    weekday() is day % 7.                                                *)
(*  - A confidence is an integer number of ten-thousandths, so             *)
(*    round(x, 4) is an integer in these units and 0.6 is 6000.            *)
(*  - A str is a TLA+ string, except a persisted slot key, which is a      *)
(*    sequence of one-character strings so that formatting and parsing     *)
(*    are computed.                                                        *)
(***************************************************************************)
EXTENDS Integers, Sequences, FiniteSets, TLC

VARIABLES
    model,      \* the UserActionModel instance under test
    file,       \* the content of ModelStore.path
    saved,      \* history: the model that save() serialised into file, or None
    last,       \* history: the last operation, its arguments and its result
    used,       \* number of events handed to fit so far (bounds the run)
    snapshots,  \* the ha_states list given to action_events_from_states
    shuffled,   \* the same snapshots in another order
    emitted,    \* None, or the events extracted from snapshots and from shuffled
    threads,    \* per thread: the call it is in and its position in it
    lock,       \* model._lock: its owner and recursion count
    stable,     \* history: the aggregate state when the last fit completed
    calls,      \* number of calls started so far (bounds the run)
    globals     \* the module-level variables of the request layer

ExtractVars == <<snapshots, shuffled, emitted>>
ConcVars == <<threads, lock, stable, calls, globals>>
vars == <<model, file, saved, last, used, ExtractVars, ConcVars>>

\* Optional[T]: None is the empty sequence, a value x is <<x>>
None == <<>>
Some(x) == <<x>>

\* ------------------------------------------------------------------ bounds
\* events handed to fit in one run
MaxEvents == 3
\* events behind the model that the save / load runs start from
MaxStoreEvents == 2
\* snapshots handed to action_events_from_states
MaxSnapshots == 3
\* snapshots handed to the pattern miners on top of a known history
MaxRoutineSnapshots == 3
\* snapshots added to a history on record, for the sequence miner
MaxSequenceSnapshots == 2
\* calls started on the shared model in one run
MaxCalls == 3

\* ------------------------------------------------------------- dict helpers
EmptyDict == <<>>

DHas(d, k) == \E i \in 1..Len(d) : d[i][1] = k

DGet(d, k, dflt) ==
    IF DHas(d, k) THEN d[CHOOSE i \in 1..Len(d) : d[i][1] = k][2] ELSE dflt

DSet(d, k, v) ==
    IF DHas(d, k)
    THEN [i \in 1..Len(d) |-> IF d[i][1] = k THEN <<k, v>> ELSE d[i]]
    ELSE Append(d, <<k, v>>)

DKeys(d) == {d[i][1] : i \in 1..Len(d)}

\* d[k] += 1 after "if k not in d: d[k] = 0"
Inc1(d, k) == DSet(d, k, DGet(d, k, 0) + 1)
\* d[k1][k2] += 1 after the two "not in" initialisations
Inc2(d, k1, k2) == DSet(d, k1, Inc1(DGet(d, k1, EmptyDict), k2))
Inc3(d, k1, k2, k3) == DSet(d, k1, Inc2(DGet(d, k1, EmptyDict), k2, k3))
\* d[k].add(x) after "if k not in d: d[k] = set()"
Add1(d, k, x) == DSet(d, k, DGet(d, k, {}) \cup {x})
Add2(d, k1, k2, x) == DSet(d, k1, Add1(DGet(d, k1, EmptyDict), k2, x))
Add3(d, k1, k2, k3, x) == DSet(d, k1, Add2(DGet(d, k1, EmptyDict), k2, k3, x))

\* {k: len(v) for k, v in d.items()} and its nestings
Len1(d) == [i \in 1..Len(d) |-> <<d[i][1], Cardinality(d[i][2])>>]
Len2(d) == [i \in 1..Len(d) |-> <<d[i][1], Len1(d[i][2])>>]
Len3(d) == [i \in 1..Len(d) |-> <<d[i][1], Len2(d[i][2])>>]

\* ------------------------------------------------------------ input domains
Entities == {"light.a", "switch.b"}
\* to_state strings as they reach fit: any case, maybe padded, maybe noise
RawStates == {"on", "ON ", "off", "Unknown"}
\* day 1 and day 8 are the same weekday; day 1 hour 0 and hour 17 share a date

D1H0 == [day |-> 1, hour |-> 0]
D8H0 == [day |-> 8, hour |-> 0]
D1H17 == [day |-> 1, hour |-> 17]

Ev(e, s, t) == [entity_id |-> e, from_state |-> "x", to_state |-> s, timestamp |-> t]

\* the events a fit may be given
Events ==
    { Ev("light.a", "on", D1H0), Ev("light.a", "ON ", D1H0), Ev("light.a", "on", D8H0),
      Ev("light.a", "off", D1H0), Ev("light.a", "off", D1H17),
      Ev("switch.b", "on", D1H0), Ev("switch.b", "Unknown", D8H0), Ev("switch.b", "off", D1H17) }

RECURSIVE SeqsUpTo(_, _)
SeqsUpTo(S, n) ==
    IF n = 0 THEN {<<>>}
    ELSE LET shorter == SeqsUpTo(S, n - 1)
         IN  shorter \cup {Append(s, x) : s \in {t \in shorter : Len(t) = n - 1}, x \in S}

\* the event lists of each length up to the bound, computed once
EventLists == [n \in 0..MaxEvents |-> SeqsUpTo(Events, n)]

\* ---------------------------------------------------------- UserActionModel
NewModel(min_support, min_confidence) ==
    [ min_support |-> min_support,
      min_confidence |-> min_confidence,
      slot_total_actions |-> EmptyDict,
      slot_entity_total_count |-> EmptyDict,
      slot_entity_state_count |-> EmptyDict,
      slot_entity_day_count |-> EmptyDict,
      slot_entity_state_day_count |-> EmptyDict,
      global_total_actions |-> 0,
      global_entity_total_count |-> EmptyDict,
      global_entity_state_count |-> EmptyDict,
      global_entity_day_count |-> EmptyDict,
      global_entity_state_day_count |-> EmptyDict,
      trained_actions |-> 0 ]

DefaultMinSupport == 5
DefaultMinConfidence == 6000

Weekday(ts) == ts.day % 7

Slot(ts) == <<Weekday(ts), ts.hour>>

\* (state or "").strip().lower(), tabulated over RawStates and their images
StripLower(s) ==
    CASE s = "ON " -> "on"
      [] s = "Unknown" -> "unknown"
      [] s = "Home " -> "home"
      [] s = "NaN" -> "nan"
      [] OTHER -> s

\* mutant of IsRelevantState: only the empty state is noise
IsRelevantState_EmptyOnly(state) == StripLower(state) # ""

IsRelevantState(state) ==
    LET value == StripLower(state)
    IN  /\ value # ""
        /\ value \notin {"unknown", "unavailable", "none"}

\* mutant of FitClear: the per-entity global totals are not reset
FitClear_KeepsEntityTotals(m) ==
    [ m EXCEPT
        !.slot_total_actions = EmptyDict,
        !.slot_entity_total_count = EmptyDict,
        !.slot_entity_state_count = EmptyDict,
        !.slot_entity_day_count = EmptyDict,
        !.slot_entity_state_day_count = EmptyDict,
        !.global_total_actions = 0,
        !.global_entity_state_count = EmptyDict,
        !.global_entity_day_count = EmptyDict,
        !.global_entity_state_day_count = EmptyDict,
        !.trained_actions = 0 ]

\* fit, lines 60-75: every aggregate reset, the four *_days_seen locals created
FitClear(m) ==
    [ m EXCEPT
        !.slot_total_actions = EmptyDict,
        !.slot_entity_total_count = EmptyDict,
        !.slot_entity_state_count = EmptyDict,
        !.slot_entity_day_count = EmptyDict,
        !.slot_entity_state_day_count = EmptyDict,
        !.global_total_actions = 0,
        !.global_entity_total_count = EmptyDict,
        !.global_entity_state_count = EmptyDict,
        !.global_entity_day_count = EmptyDict,
        !.global_entity_state_day_count = EmptyDict,
        !.trained_actions = 0 ]

NoDaysSeen ==
    [ slot_entity_days_seen |-> EmptyDict,
      slot_entity_state_days_seen |-> EmptyDict,
      global_entity_days_seen |-> EmptyDict,
      global_entity_state_days_seen |-> EmptyDict ]

\* fit, lines 77-137: one iteration of the loop over events.
\* acc = [m |-> the model, seen |-> the *_days_seen locals]
FitEvent(acc, ev) ==
    LET to_state == StripLower(ev.to_state)
        slot == Slot(ev.timestamp)
        day_key == ev.timestamp.day
        e == ev.entity_id
        m == acc.m
        seen == acc.seen
    IN  IF ~IsRelevantState(to_state) THEN acc
        ELSE
          [ m |->
              [ m EXCEPT
                  !.slot_total_actions = Inc1(@, slot),
                  !.slot_entity_total_count = Inc2(@, slot, e),
                  !.slot_entity_state_count = Inc3(@, slot, e, to_state),
                  !.global_entity_total_count = Inc1(@, e),
                  !.global_entity_state_count = Inc2(@, e, to_state),
                  !.global_total_actions = @ + 1,
                  !.trained_actions = @ + 1 ],
            seen |->
              [ slot_entity_days_seen |-> Add2(seen.slot_entity_days_seen, slot, e, day_key),
                slot_entity_state_days_seen |->
                    Add3(seen.slot_entity_state_days_seen, slot, e, to_state, day_key),
                global_entity_days_seen |-> Add1(seen.global_entity_days_seen, e, day_key),
                global_entity_state_days_seen |->
                    Add2(seen.global_entity_state_days_seen, e, to_state, day_key) ] ]

\* mutant of FitFinish: the day counts are the raw event counts
FitFinish_RawCounts(acc) ==
    [ acc.m EXCEPT
        !.slot_entity_day_count = acc.m.slot_entity_total_count,
        !.slot_entity_state_day_count = acc.m.slot_entity_state_count,
        !.global_entity_day_count = acc.m.global_entity_total_count,
        !.global_entity_state_day_count = acc.m.global_entity_state_count ]

\* fit, lines 139-156: the day sets collapsed to their cardinalities
FitFinish(acc) ==
    [ acc.m EXCEPT
        !.slot_entity_day_count = Len2(acc.seen.slot_entity_days_seen),
        !.slot_entity_state_day_count = Len3(acc.seen.slot_entity_state_days_seen),
        !.global_entity_day_count = Len1(acc.seen.global_entity_days_seen),
        !.global_entity_state_day_count = Len2(acc.seen.global_entity_state_days_seen) ]

RECURSIVE FitLoop(_, _)
FitLoop(acc, events) ==
    IF events = <<>> THEN acc
    ELSE FitLoop(FitEvent(acc, Head(events)), Tail(events))

\* UserActionModel.fit
FitModel(m, events) ==
    FitFinish(FitLoop([m |-> FitClear(m), seen |-> NoDaysSeen], events))

\* UserActionModel.set_thresholds
Max(a, b) == IF a >= b THEN a ELSE b
Min(a, b) == IF a <= b THEN a ELSE b

\* mutant of SetThresholdsModel: the model is marked untrained as well
SetThresholdsModel_Untrains(m, min_support, min_confidence) ==
    [ m EXCEPT
        !.min_support = Max(1, min_support),
        !.min_confidence = Max(0, Min(10000, min_confidence)),
        !.trained_actions = 0 ]

\* UserActionModel.set_thresholds
SetThresholdsModel(m, min_support, min_confidence) ==
    [ m EXCEPT
        !.min_support = Max(1, min_support),
        !.min_confidence = Max(0, Min(10000, min_confidence)) ]

\* ------------------------------------------------------------------ predict
\* a count that json decoded to a str (a value int() and arithmetic reject)
NonNumeric == -1

\* round(count / entity_total, 4) in ten-thousandths, ties to even
Round4(count, entity_total) ==
    LET n == count * 10000
        q == n \div entity_total
        r == n % entity_total
    IN  IF 2 * r > entity_total THEN q + 1
        ELSE IF 2 * r < entity_total THEN q
        ELSE IF q % 2 = 0 THEN q ELSE q + 1

\* the inner loop "for state, count in states.items()" of both collectors
CollectStates(entity_id, states, entity_total, curr_support, curr_conf, source) ==
    LET item(i) ==
            [ entity_id |-> entity_id,
              state |-> states[i][1],
              support |-> states[i][2],
              confidence |-> Round4(states[i][2], entity_total),
              source |-> source ]
        \* count >= curr_support and count / entity_total >= curr_conf
        qualifies(p) ==
            /\ p.support >= curr_support
            /\ p.support * 10000 >= curr_conf * entity_total
    IN  SelectSeq([i \in 1..Len(states) |-> item(i)], qualifies)

\* the outer loop "for entity_id, states in <state day counts>.items()"
RECURSIVE CollectEntities(_, _, _, _, _)
CollectEntities(state_days, days_by_entity, curr_support, curr_conf, source) ==
    IF state_days = <<>> THEN <<>>
    ELSE LET entity_id == Head(state_days)[1]
             states == Head(state_days)[2]
             entity_total == DGet(days_by_entity, entity_id, 0)
             rest == CollectEntities(Tail(state_days), days_by_entity,
                                     curr_support, curr_conf, source)
         IN  IF entity_total <= 0 THEN rest
             ELSE CollectStates(entity_id, states, entity_total,
                                curr_support, curr_conf, source) \o rest

\* count / entity_total raises TypeError when count is a str
CollectRaises(state_days, days_by_entity) ==
    \E i \in 1..Len(state_days) :
        /\ DGet(days_by_entity, state_days[i][1], 0) > 0
        /\ \E j \in 1..Len(state_days[i][2]) : state_days[i][2][j][2] = NonNumeric

\* collect_from_slot
CollectFromSlot(m, slot, curr_support, curr_conf, source) ==
    IF ~DHas(m.slot_entity_state_day_count, slot) THEN <<>>
    ELSE CollectEntities(DGet(m.slot_entity_state_day_count, slot, EmptyDict),
                         DGet(m.slot_entity_day_count, slot, EmptyDict),
                         curr_support, curr_conf, source)

SlotRaises(m, slot) ==
    /\ DHas(m.slot_entity_state_day_count, slot)
    /\ CollectRaises(DGet(m.slot_entity_state_day_count, slot, EmptyDict),
                     DGet(m.slot_entity_day_count, slot, EmptyDict))

\* collect_global
CollectGlobal(m, curr_support, curr_conf, source) ==
    CollectEntities(m.global_entity_state_day_count, m.global_entity_day_count,
                    curr_support, curr_conf, source)

GlobalRaises(m) ==
    CollectRaises(m.global_entity_state_day_count, m.global_entity_day_count)

\* mutant of Cascade: the relaxed tiers run whatever allow_relaxed_fallback says
Cascade_AlwaysRelaxed(m, slot, support_threshold, confidence_threshold, allow_relaxed_fallback) ==
    LET t1 == CollectFromSlot(m, slot, support_threshold, confidence_threshold, "time_slot")
        t2 == IF t1 = <<>>
              THEN CollectFromSlot(m, slot, 1, confidence_threshold,
                                   "time_slot_relaxed_support")
              ELSE t1
        t3 == IF t2 = <<>>
              THEN CollectGlobal(m, support_threshold, confidence_threshold,
                                 "global_fallback")
              ELSE t2
        t4 == IF t3 = <<>>
              THEN CollectGlobal(m, 1, confidence_threshold,
                                 "global_fallback_relaxed_support")
              ELSE t3
    IN  t4

\* the four-tier cascade, lines 218-228
Cascade(m, slot, support_threshold, confidence_threshold, allow_relaxed_fallback) ==
    LET t1 == CollectFromSlot(m, slot, support_threshold, confidence_threshold, "time_slot")
        t2 == IF t1 = <<>> /\ allow_relaxed_fallback
              THEN CollectFromSlot(m, slot, 1, confidence_threshold,
                                   "time_slot_relaxed_support")
              ELSE t1
        t3 == IF t2 = <<>>
              THEN CollectGlobal(m, support_threshold, confidence_threshold,
                                 "global_fallback")
              ELSE t2
        t4 == IF t3 = <<>> /\ allow_relaxed_fallback
              THEN CollectGlobal(m, 1, confidence_threshold,
                                 "global_fallback_relaxed_support")
              ELSE t3
    IN  t4

\* a tier that is consulted raises when it divides a str count
CascadeRaises(m, slot, support_threshold, confidence_threshold, allow_relaxed_fallback) ==
    \/ SlotRaises(m, slot)
    \/ /\ CollectFromSlot(m, slot, support_threshold, confidence_threshold, "time_slot") = <<>>
       /\ ~allow_relaxed_fallback
          \/ CollectFromSlot(m, slot, 1, confidence_threshold, "") = <<>>
       /\ GlobalRaises(m)

\* x > y on the sort key (confidence, support)
ScoreGreater(x, y) ==
    \/ x.confidence > y.confidence
    \/ x.confidence = y.confidence /\ x.support > y.support

\* list.sort(key=(confidence, support), reverse=True): stable, descending
RECURSIVE InsertDesc(_, _)
InsertDesc(sorted, x) ==
    IF sorted = <<>> THEN <<x>>
    ELSE IF ScoreGreater(x, Head(sorted)) THEN <<x>> \o sorted
    ELSE <<Head(sorted)>> \o InsertDesc(Tail(sorted), x)

RECURSIVE SortDesc(_)
SortDesc(items) ==
    IF items = <<>> THEN <<>>
    ELSE InsertDesc(SortDesc(SubSeq(items, 1, Len(items) - 1)), items[Len(items)])

\* mutant of BestByEntity: a later candidate of the entity replaces the kept one
RECURSIVE BestByEntity_KeepsLast(_, _)
BestByEntity_KeepsLast(best, items) ==
    IF items = <<>> THEN best
    ELSE BestByEntity_KeepsLast(DSet(best, Head(items).entity_id, Head(items)), Tail(items))

\* lines 232-243: best_by_entity, filled in the order of the sorted list
RECURSIVE BestByEntity(_, _)
BestByEntity(best, items) ==
    IF items = <<>> THEN best
    ELSE LET item == Head(items)
             keep == IF ~DHas(best, item.entity_id)
                     THEN DSet(best, item.entity_id, item)
                     ELSE IF ScoreGreater(item, DGet(best, item.entity_id, item))
                          THEN DSet(best, item.entity_id, item)
                          ELSE best
         IN  BestByEntity(keep, Tail(items))

DValues(d) == [i \in 1..Len(d) |-> d[i][2]]

\* mutant of RankAndCut: the limit is used as given
RankAndCut_LimitAsGiven(candidates, limit, one_per_entity) ==
    LET sorted == SortDesc(candidates)
        chosen == IF one_per_entity
                  THEN SortDesc(DValues(BestByEntity(EmptyDict, sorted)))
                  ELSE sorted
    IN  SubSeq(chosen, 1, Min(Len(chosen), limit))

\* lines 230-251
RankAndCut(candidates, limit, one_per_entity) ==
    LET sorted == SortDesc(candidates)
        chosen == IF one_per_entity
                  THEN SortDesc(DValues(BestByEntity(EmptyDict, sorted)))
                  ELSE sorted
    IN  SubSeq(chosen, 1, Min(Len(chosen), Max(1, limit)))

\* UserActionModel.predict; q holds the arguments
PredictModel(m, q) ==
    LET support_threshold == IF q.min_support = None THEN m.min_support
                             ELSE q.min_support[1]
        confidence_threshold == IF q.min_confidence = None THEN m.min_confidence
                                ELSE q.min_confidence[1]
        slot == Slot(q.when)
    IN  IF CascadeRaises(m, slot, support_threshold, confidence_threshold,
                         q.allow_relaxed_fallback)
        THEN [raised |-> TRUE, predictions |-> <<>>]
        ELSE [raised |-> FALSE,
              predictions |->
                  RankAndCut(Cascade(m, slot, support_threshold, confidence_threshold,
                                     q.allow_relaxed_fallback),
                             q.limit, q.one_per_entity)]

\* UserActionModel.stats
StatsModel(m) ==
    [ trained_actions |-> m.trained_actions,
      slot_count |-> Len(m.slot_total_actions),
      entity_count |-> Len(m.global_entity_state_count),
      global_total_actions |-> m.global_total_actions,
      min_support |-> m.min_support,
      min_confidence |-> m.min_confidence ]

\* ------------------------------------------------- to_dict / from_dict
\* str(n) for an int, as a sequence of characters
DigitChars == <<"0", "1", "2", "3", "4", "5", "6", "7", "8", "9">>

RECURSIVE NatDigits(_)
NatDigits(n) ==
    IF n < 10 THEN <<DigitChars[n + 1]>>
    ELSE Append(NatDigits(n \div 10), DigitChars[(n % 10) + 1])

IntStr(n) == IF n < 0 THEN <<"-">> \o NatDigits(-n) ELSE NatDigits(n)

\* mutant of FormatSlot: hour and weekday change places
FormatSlot_HourFirst(k) == IntStr(k[2]) \o <<":">> \o IntStr(k[1])

\* f"{k[0]}:{k[1]}"
FormatSlot(k) == IntStr(k[1]) \o <<":">> \o IntStr(k[2])

FormatSlotKeys(d) == [i \in 1..Len(d) |-> <<FormatSlot(d[i][1]), d[i][2]>>]

\* UserActionModel.to_dict: the payload, a mapping from field name to value
ToDict(m) ==
    [ min_support |-> m.min_support,
      min_confidence |-> m.min_confidence,
      slot_total_actions |-> FormatSlotKeys(m.slot_total_actions),
      slot_entity_total_count |-> FormatSlotKeys(m.slot_entity_total_count),
      slot_entity_state_count |-> FormatSlotKeys(m.slot_entity_state_count),
      slot_entity_day_count |-> FormatSlotKeys(m.slot_entity_day_count),
      slot_entity_state_day_count |-> FormatSlotKeys(m.slot_entity_state_day_count),
      global_total_actions |-> m.global_total_actions,
      global_entity_total_count |-> m.global_entity_total_count,
      global_entity_state_count |-> m.global_entity_state_count,
      global_entity_day_count |-> m.global_entity_day_count,
      global_entity_state_day_count |-> m.global_entity_state_day_count,
      trained_actions |-> m.trained_actions ]

\* payload.get(name, dflt)
PGet(payload, name, dflt) == IF name \in DOMAIN payload THEN payload[name] ELSE dflt

IsDigit(c) == \E i \in 1..10 : DigitChars[i] = c

RECURSIVE DigitsValue(_)
DigitsValue(chars) ==
    IF chars = <<>> THEN 0
    ELSE 10 * DigitsValue(SubSeq(chars, 1, Len(chars) - 1))
         + ((CHOOSE i \in 1..10 : DigitChars[i] = chars[Len(chars)]) - 1)

\* int(text): a sign and digits, anything else is a ValueError
IntOfStr(chars) ==
    LET neg == chars # <<>> /\ chars[1] = "-"
        body == IF neg THEN Tail(chars) ELSE chars
    IN  IF body = <<>> \/ \E i \in 1..Len(body) : ~IsDigit(body[i])
        THEN [ok |-> FALSE, v |-> 0]
        ELSE [ok |-> TRUE, v |-> IF neg THEN 0 - DigitsValue(body) ELSE DigitsValue(body)]

\* parse_slot: w, h = slot_key.split(":", 1); return int(w), int(h)
ParseSlot(slot_key) ==
    LET colons == {i \in 1..Len(slot_key) : slot_key[i] = ":"}
    IN  IF colons = {} THEN [ok |-> FALSE, v |-> <<0, 0>>]
        ELSE LET at == CHOOSE i \in colons : \A j \in colons : i <= j
                 w == IntOfStr(SubSeq(slot_key, 1, at - 1))
                 h == IntOfStr(SubSeq(slot_key, at + 1, Len(slot_key)))
             IN  [ok |-> w.ok /\ h.ok, v |-> <<w.v, h.v>>]

\* int(cnt) of a decoded json value: a number converts, a non-numeric str raises
IntOk(v) == v # NonNumeric

Ints1Ok(d) == \A i \in 1..Len(d) : IntOk(d[i][2])
Ints2Ok(d) == \A i \in 1..Len(d) : Ints1Ok(d[i][2])
Ints3Ok(d) == \A i \in 1..Len(d) : Ints2Ok(d[i][2])

SlotKeysOk(d) == \A i \in 1..Len(d) : ParseSlot(d[i][1]).ok

\* {parse_slot(k): v for k, v in raw.items()}: a repeated key keeps its first place
RECURSIVE ParseSlotKeys(_, _)
ParseSlotKeys(done, raw) ==
    IF raw = <<>> THEN done
    ELSE ParseSlotKeys(DSet(done, ParseSlot(Head(raw)[1]).v, Head(raw)[2]), Tail(raw))

\* sum(states.values()) raises TypeError when a value is a str
SumValues(d) ==
    LET RECURSIVE upto(_)
        upto(i) == IF i = 0 THEN 0 ELSE upto(i - 1) + d[i][2]
    IN  upto(Len(d))

Sum1(d) == [i \in 1..Len(d) |-> <<d[i][1], SumValues(d[i][2])>>]
Sum2(d) == [i \in 1..Len(d) |-> <<d[i][1], Sum1(d[i][2])>>]

\* from_dict, lines 303-353: the fields read back and converted
ParseFields(payload) ==
    LET slot_totals_raw == PGet(payload, "slot_total_actions", EmptyDict)
        slot_entity_totals_raw == PGet(payload, "slot_entity_total_count", EmptyDict)
        slot_entity_raw == PGet(payload, "slot_entity_state_count", EmptyDict)
        slot_entity_day_raw == PGet(payload, "slot_entity_day_count", EmptyDict)
        slot_entity_state_day_raw == PGet(payload, "slot_entity_state_day_count", EmptyDict)
        global_entity_totals_raw == PGet(payload, "global_entity_total_count", EmptyDict)
        global_entity_day_raw == PGet(payload, "global_entity_day_count", EmptyDict)
        global_entity_state_day_raw == PGet(payload, "global_entity_state_day_count", EmptyDict)
        ok ==
            /\ IntOk(PGet(payload, "min_support", DefaultMinSupport))
            /\ IntOk(PGet(payload, "min_confidence", DefaultMinConfidence))
            /\ SlotKeysOk(slot_totals_raw) /\ Ints1Ok(slot_totals_raw)
            /\ SlotKeysOk(slot_entity_totals_raw) /\ Ints2Ok(slot_entity_totals_raw)
            /\ SlotKeysOk(slot_entity_raw)
            /\ SlotKeysOk(slot_entity_day_raw) /\ Ints2Ok(slot_entity_day_raw)
            /\ SlotKeysOk(slot_entity_state_day_raw) /\ Ints3Ok(slot_entity_state_day_raw)
            /\ IntOk(PGet(payload, "global_total_actions", 0))
            /\ Ints1Ok(global_entity_totals_raw)
            /\ Ints1Ok(global_entity_day_raw)
            /\ Ints2Ok(global_entity_state_day_raw)
            /\ IntOk(PGet(payload, "trained_actions", 0))
    IN  [ ok |-> ok,
          m |->
            [ min_support |-> PGet(payload, "min_support", DefaultMinSupport),
              min_confidence |-> PGet(payload, "min_confidence", DefaultMinConfidence),
              slot_total_actions |-> ParseSlotKeys(EmptyDict, slot_totals_raw),
              slot_entity_total_count |-> ParseSlotKeys(EmptyDict, slot_entity_totals_raw),
              slot_entity_state_count |-> ParseSlotKeys(EmptyDict, slot_entity_raw),
              slot_entity_day_count |-> ParseSlotKeys(EmptyDict, slot_entity_day_raw),
              slot_entity_state_day_count |->
                  ParseSlotKeys(EmptyDict, slot_entity_state_day_raw),
              global_total_actions |-> PGet(payload, "global_total_actions", 0),
              global_entity_total_count |-> global_entity_totals_raw,
              global_entity_state_count |->
                  PGet(payload, "global_entity_state_count", EmptyDict),
              global_entity_day_count |-> global_entity_day_raw,
              global_entity_state_day_count |-> global_entity_state_day_raw,
              trained_actions |-> PGet(payload, "trained_actions", 0) ] ]

\* from_dict, lines 355-369: entity totals rebuilt from the per-state counts
RebuildEntityTotals(r) ==
    LET m == r.m
        slot_rebuild == m.slot_entity_total_count = EmptyDict
                        /\ m.slot_entity_state_count # EmptyDict
        global_rebuild == m.global_entity_total_count = EmptyDict
                          /\ m.global_entity_state_count # EmptyDict
    IN  IF ~r.ok THEN r
        ELSE [ ok |-> /\ slot_rebuild => Ints3Ok(m.slot_entity_state_count)
                      /\ global_rebuild => Ints2Ok(m.global_entity_state_count),
               m |-> [ m EXCEPT
                        !.slot_entity_total_count =
                            IF slot_rebuild THEN Sum2(m.slot_entity_state_count) ELSE @,
                        !.global_entity_total_count =
                            IF global_rebuild THEN Sum1(m.global_entity_state_count) ELSE @ ] ]

\* mutant of BackfillDayCounts: an entity's day count is its number of states
BackfillDayCounts_StatesPerEntity(r) ==
    LET m == r.m
        Size1(d) == [i \in 1..Len(d) |-> <<d[i][1], Len(d[i][2])>>]
        Size2(d) == [i \in 1..Len(d) |-> <<d[i][1], Size1(d[i][2])>>]
    IN  IF ~r.ok THEN r
        ELSE [ ok |-> TRUE,
               m |-> [ m EXCEPT
                        !.slot_entity_day_count =
                            IF @ = EmptyDict /\ m.slot_entity_total_count # EmptyDict
                            THEN Size2(m.slot_entity_state_count) ELSE @,
                        !.slot_entity_state_day_count =
                            IF @ = EmptyDict /\ m.slot_entity_state_count # EmptyDict
                            THEN m.slot_entity_state_count ELSE @,
                        !.global_entity_day_count =
                            IF @ = EmptyDict /\ m.global_entity_total_count # EmptyDict
                            THEN Size1(m.global_entity_state_count) ELSE @,
                        !.global_entity_state_day_count =
                            IF @ = EmptyDict /\ m.global_entity_state_count # EmptyDict
                            THEN m.global_entity_state_count ELSE @ ] ]

\* from_dict, lines 371-391: day counts backfilled by copying the raw counts
BackfillDayCounts(r) ==
    LET m == r.m
    IN  IF ~r.ok THEN r
        ELSE [ ok |-> TRUE,
               m |-> [ m EXCEPT
                        !.slot_entity_day_count =
                            IF @ = EmptyDict /\ m.slot_entity_total_count # EmptyDict
                            THEN m.slot_entity_total_count ELSE @,
                        !.slot_entity_state_day_count =
                            IF @ = EmptyDict /\ m.slot_entity_state_count # EmptyDict
                            THEN m.slot_entity_state_count ELSE @,
                        !.global_entity_day_count =
                            IF @ = EmptyDict /\ m.global_entity_total_count # EmptyDict
                            THEN m.global_entity_total_count ELSE @,
                        !.global_entity_state_day_count =
                            IF @ = EmptyDict /\ m.global_entity_state_count # EmptyDict
                            THEN m.global_entity_state_count ELSE @ ] ]

\* mutant of FromDict: the two repairs in the opposite order
FromDict_BackfillFirst(payload) ==
    RebuildEntityTotals(BackfillDayCounts(ParseFields(payload)))

\* UserActionModel.from_dict: [ok |-> FALSE] stands for a raised exception
FromDict(payload) == BackfillDayCounts(RebuildEntityTotals(ParseFields(payload)))

\* ---------------------------------------------------------------- ModelStore
\* the file: absent, text that is not json, json that is no object, or an object
Absent == [kind |-> "absent"]
NotJson == [kind |-> "not_json"]
NotObject == [kind |-> "not_object"]
Document(payload) == [kind |-> "object", payload |-> payload]

\* ModelStore.save
SaveFile(m) == Document(ToDict(m))

\* ModelStore.load: None, or Some(model)
LoadFile(f) ==
    IF f.kind = "absent" THEN None
    ELSE IF f.kind # "object" THEN None
    ELSE LET r == FromDict(f.payload)
         IN  IF r.ok THEN Some(r.m) ELSE None

\* ----------------------------------------------------------------- actions
\* arguments given to set_thresholds
SupportArgs == {0, 2}
ConfidenceArgs == {5000, 12000}

\* thresholds a model is constructed with (main.py passes clamped option values)
InitThresholds == {<<DefaultMinSupport, DefaultMinConfidence>>, <<2, 5000>>}

\* the arguments predict is probed with
Queries ==
    [ when : {D1H0, [day |-> 3, hour |-> 5]},
      limit : {1, 10},
      min_support : {None, Some(0)},
      min_confidence : {None, Some(0)},
      allow_relaxed_fallback : BOOLEAN,
      one_per_entity : BOOLEAN ]

\* the models a fit of at most MaxEvents events leaves behind
TrainedModels ==
    { FitModel(NewModel(t[1], t[2]), events) :
        t \in InitThresholds, events \in EventLists[MaxEvents] }

\* fields that documents written by earlier versions lack
TotalFields == {"slot_entity_total_count", "global_entity_total_count"}
DayFields ==
    { "slot_entity_day_count", "slot_entity_state_day_count",
      "global_entity_day_count", "global_entity_state_day_count" }
LegacyDrops == {DayFields, TotalFields, DayFields \cup TotalFields}

DropFields(payload, drops) == [f \in DOMAIN payload \ drops |-> payload[f]]

\* damaged documents: a slot key without ":", a slot key with a non-digit hour,
\* a non-numeric count in a converted map, a non-numeric count in a raw map
Damages == {"not_json", "not_object", "slot_key", "slot_hour", "total_count", "state_count"}

Damage(f, kind) ==
    CASE kind = "not_json" -> NotJson
      [] kind = "not_object" -> NotObject
      [] kind = "slot_key" ->
            Document([f.payload EXCEPT !.slot_total_actions = Append(@, <<<<"7">>, 1>>)])
      [] kind = "slot_hour" ->
            Document([f.payload EXCEPT !.slot_total_actions =
                                            Append(@, <<<<"1", ":", "x">>, 1>>)])
      [] kind = "total_count" ->
            Document([f.payload EXCEPT !.slot_total_actions =
                                            DSet(@, <<"1", ":", "0">>, NonNumeric)])
      [] kind = "state_count" ->
            Document([f.payload EXCEPT !.global_entity_state_count =
                                            DSet(@, "light.a", <<<<"on", NonNumeric>>>>)])

\* the structure load expects: slot keys "<int>:<int>" and numeric counts
WellFormed(f) ==
    /\ f.kind = "object"
    /\ LET p == f.payload
           g(name) == PGet(p, name, EmptyDict)
       IN  /\ \A name \in { "slot_total_actions", "slot_entity_total_count",
                            "slot_entity_state_count", "slot_entity_day_count",
                            "slot_entity_state_day_count" } : SlotKeysOk(g(name))
           /\ Ints1Ok(g("slot_total_actions"))
           /\ Ints2Ok(g("slot_entity_total_count"))
           /\ Ints3Ok(g("slot_entity_state_count"))
           /\ Ints2Ok(g("slot_entity_day_count"))
           /\ Ints3Ok(g("slot_entity_state_day_count"))
           /\ Ints1Ok(g("global_entity_total_count"))
           /\ Ints2Ok(g("global_entity_state_count"))
           /\ Ints1Ok(g("global_entity_day_count"))
           /\ Ints2Ok(g("global_entity_state_day_count"))

\* ------------------------------------------------ action_events_from_states
\* a timestamp text: ISO text of the instant at, or text fromisoformat rejects
Iso(at) == Some([iso |-> TRUE, at |-> at])
NotIso == Some([iso |-> FALSE])

Snapshot(entity_id, state, last_changed, last_updated) ==
    [ entity_id |-> entity_id, state |-> state,
      last_changed |-> last_changed, last_updated |-> last_updated ]

\* the raw snapshots the history endpoint may hand over
Snapshots ==
    { Snapshot("light.a", "off", Iso(0), None),
      Snapshot("light.a", "on", Iso(1), None),
      Snapshot("light.a", "off", Iso(1), None),
      Snapshot(" light.a", "on", None, Iso(2)),
      Snapshot("switch.b", "on ", Iso(0), None),
      Snapshot("switch.b", "on", Iso(1), None),
      Snapshot("switch.b", "On", Iso(1), None),
      Snapshot("nodot", "on", Iso(0), None),
      Snapshot("light.a", "on", NotIso, None) }

SnapshotLists == SeqsUpTo(Snapshots, MaxSnapshots)

\* str.strip() on the texts above
Strip(s) ==
    CASE s = " light.a" -> "light.a"
      [] s = "on " -> "on"
      [] s = "Home " -> "Home"
      [] OTHER -> s

\* "." in entity_id
HasDot(entity_id) ==
    entity_id \in {"light.a", "switch.b", "device_tracker.p", "binary_sensor.front_door",
                   "binary_sensor.motion", "lock.entry", "light.hall", "sensor.temp",
                   "climate.room"}

\* raw.get("last_changed") or raw.get("last_updated") or ""
TsRaw(raw) == IF raw.last_changed # None THEN raw.last_changed ELSE raw.last_updated

\* mutant of FromIsoFormat: a timestamp that does not parse counts as time 0
FromIsoFormat_ZeroOnFailure(ts_raw) ==
    IF ts_raw # None /\ ts_raw[1].iso THEN Some(ts_raw[1].at) ELSE Some(0)

\* datetime.fromisoformat(...), None when it raises
FromIsoFormat(ts_raw) ==
    IF ts_raw # None /\ ts_raw[1].iso THEN Some(ts_raw[1].at) ELSE None

\* lines 421-440: the kept snapshots by entity, in first-seen order
RECURSIVE GroupByEntity(_, _)
GroupByEntity(by_entity, ha_states) ==
    IF ha_states = <<>> THEN by_entity
    ELSE LET raw == Head(ha_states)
             entity_id == Strip(raw.entity_id)
             ts == FromIsoFormat(TsRaw(raw))
             item == [entity_id |-> entity_id, state |-> Strip(raw.state), timestamp |-> ts[1]]
         IN  IF entity_id = "" \/ ~HasDot(entity_id) \/ ts = None
             THEN GroupByEntity(by_entity, Tail(ha_states))
             ELSE GroupByEntity(
                      DSet(by_entity, entity_id, Append(DGet(by_entity, entity_id, <<>>), item)),
                      Tail(ha_states))

\* list.sort is stable: x goes behind every item whose key is not greater
RECURSIVE InsertByTimestamp(_, _)
InsertByTimestamp(sorted, x) ==
    IF sorted = <<>> THEN <<x>>
    ELSE IF x.timestamp < Head(sorted).timestamp THEN <<x>> \o sorted
    ELSE <<Head(sorted)>> \o InsertByTimestamp(Tail(sorted), x)

\* mutant of SortByTimestamp: the items stay in input order
SortByTimestamp_InputOrder(items) == items

\* items.sort(key=lambda x: x["timestamp"])
RECURSIVE SortByTimestamp(_)
SortByTimestamp(items) ==
    IF items = <<>> THEN <<>>
    ELSE InsertByTimestamp(SortByTimestamp(SubSeq(items, 1, Len(items) - 1)), items[Len(items)])

\* mutant of Transitions: equal states are not skipped
RECURSIVE Transitions_EveryPair(_, _)
Transitions_EveryPair(items, idx) ==
    IF idx > Len(items) THEN <<>>
    ELSE << [ entity_id |-> items[idx].entity_id, from_state |-> items[idx - 1].state,
              to_state |-> items[idx].state, timestamp |-> items[idx].timestamp ] >>
         \o Transitions_EveryPair(items, idx + 1)

\* lines 446-458: one event for each adjacent pair with different states
RECURSIVE Transitions(_, _)
Transitions(items, idx) ==
    IF idx > Len(items) THEN <<>>
    ELSE LET prev_state == items[idx - 1].state
             curr_state == items[idx].state
             rest == Transitions(items, idx + 1)
         IN  IF prev_state = curr_state THEN rest
             ELSE << [ entity_id |-> items[idx].entity_id, from_state |-> prev_state,
                       to_state |-> curr_state, timestamp |-> items[idx].timestamp ] >>
                  \o rest

RECURSIVE EntityEvents(_)
EntityEvents(by_entity) ==
    IF by_entity = <<>> THEN <<>>
    ELSE Transitions(SortByTimestamp(Head(by_entity)[2]), 2) \o EntityEvents(Tail(by_entity))

ActionEventsFromStates(ha_states) == EntityEvents(GroupByEntity(EmptyDict, ha_states))

\* -------------------------------------------------------- routine_patterns
\* the Cyrillic spelling of "home" in the source set is left out
HOME_STATES == {"home"}
DOOR_OPEN_STATES == {"on", "open", "unlocked"}
LIGHT_ON_STATES == {"on"}

\* a timestamp is a number of minutes; date() is the day number
MinutesPerDay == 1440
Day(ts) == ts \div MinutesPerDay

\* arrival_to_door_minutes and door_to_light_minutes as the signature has them
DefaultWindowMinutes == 20

\* entity_id.split(".", 1)[0]
DomainOf(entity_id) ==
    CASE entity_id = "device_tracker.p" -> "device_tracker"
      [] entity_id \in {"binary_sensor.front_door", "binary_sensor.motion"} -> "binary_sensor"
      [] entity_id = "lock.entry" -> "lock"
      [] entity_id \in {"light.hall", "light.a"} -> "light"
      [] entity_id = "switch.b" -> "switch"
      [] entity_id = "sensor.temp" -> "sensor"
      [] entity_id = "climate.room" -> "climate"

\* "door" in entity_id or "entry" in entity_id or "front" in entity_id
DoorLike(entity_id) == entity_id \in {"binary_sensor.front_door", "lock.entry"}

\* the snapshots the pattern miners may be handed
RoutineSnapshots ==
    { Snapshot("device_tracker.p", "home", Iso(0), None),
      Snapshot("device_tracker.p", "Home ", Iso(1440), None),
      Snapshot("binary_sensor.front_door", "on", Iso(0), None),
      Snapshot("binary_sensor.front_door", "on", Iso(15), None),
      Snapshot("binary_sensor.front_door", "on", Iso(25), None),
      Snapshot("binary_sensor.motion", "on", Iso(10), None),
      Snapshot("lock.entry", "unlocked", None, Iso(1450)),
      Snapshot("light.hall", "on", Iso(10), None),
      Snapshot("light.hall", "on", Iso(25), None),
      Snapshot("light.hall", "on", Iso(1460), None),
      Snapshot("nodot", "home", Iso(0), None),
      Snapshot("device_tracker.p", "home", NotIso, None) }

\* one evening on record: arrival, the door 15 minutes later, the light 10 after
DayOne ==
    << Snapshot("device_tracker.p", "home", Iso(0), None),
       Snapshot("binary_sensor.front_door", "on", Iso(15), None),
       Snapshot("light.hall", "on", Iso(25), None) >>

RoutineLists ==
    { known \o more : known \in {<<>>, DayOne},
                      more \in SeqsUpTo(RoutineSnapshots, MaxRoutineSnapshots) }

\* _parse_ts(item.get("last_changed") or item.get("last_updated"))
ParseTs(item) == FromIsoFormat(TsRaw(item))

\* _to_events, lines 44-53: the records kept, as Event
RECURSIVE KeptEvents(_)
KeptEvents(states) ==
    IF states = <<>> THEN <<>>
    ELSE LET item == Head(states)
             entity_id == Strip(item.entity_id)
             ts == ParseTs(item)
         IN  IF ~HasDot(entity_id) \/ ts = None
             THEN KeptEvents(Tail(states))
             ELSE << [ entity_id |-> entity_id, domain |-> DomainOf(entity_id),
                       state |-> StripLower(item.state), timestamp |-> ts[1] ] >>
                  \o KeptEvents(Tail(states))

\* _to_events
ToEvents(states) == SortByTimestamp(KeptEvents(states))

IsArrival(event) == event.domain = "device_tracker" /\ event.state \in HOME_STATES

\* mutant of IsDoorOpen: any sensor in an open state counts as a door
IsDoorOpen_AnySensor(event) ==
    /\ event.domain \in {"binary_sensor", "lock", "sensor"}
    /\ event.state \in DOOR_OPEN_STATES

IsDoorOpen(event) ==
    /\ event.domain \in {"binary_sensor", "lock", "sensor"}
    /\ DoorLike(event.entity_id)
    /\ event.state \in DOOR_OPEN_STATES

IsLightOn(event) == event.domain = "light" /\ event.state \in LIGHT_ON_STATES

\* predicate(ev) for the two predicates _find_first is called with
Matches(predicate, ev) ==
    IF predicate = "door" THEN IsDoorOpen(ev) ELSE IsLightOn(ev)

\* _find_first; indices count from 1
RECURSIVE FindFirst(_, _, _, _, _)
FindFirst(events, idx, start_ts, end_ts, predicate) ==
    IF idx > Len(events) THEN [ev |-> None, idx |-> idx]
    ELSE LET ev == events[idx]
         IN  IF ev.timestamp > end_ts THEN [ev |-> None, idx |-> idx]
             ELSE IF ev.timestamp >= start_ts /\ Matches(predicate, ev)
                  THEN [ev |-> Some(ev), idx |-> idx]
                  ELSE FindFirst(events, idx + 1, start_ts, end_ts, predicate)

\* find_arrival_chains, lines 94-119: the loop from event i on
RECURSIVE ChainsFrom(_, _, _, _)
ChainsFrom(events, i, arrival_to_door_minutes, door_to_light_minutes) ==
    IF i > Len(events) THEN <<>>
    ELSE LET ev == events[i]
             rest == ChainsFrom(events, i + 1, arrival_to_door_minutes, door_to_light_minutes)
             door == FindFirst(events, i, ev.timestamp,
                               ev.timestamp + arrival_to_door_minutes, "door")
         IN  IF ~IsArrival(ev) \/ door.ev = None THEN rest
             ELSE LET door_ev == door.ev[1]
                      light == FindFirst(events, door.idx, door_ev.timestamp,
                                         door_ev.timestamp + door_to_light_minutes, "light")
                  IN  IF light.ev = None THEN rest
                      ELSE << [ arrival_entity |-> ev.entity_id,
                                door_entity |-> door_ev.entity_id,
                                light_entity |-> light.ev[1].entity_id,
                                arrival_at |-> ev.timestamp,
                                door_at |-> door_ev.timestamp,
                                light_at |-> light.ev[1].timestamp ] >> \o rest

FindArrivalChains(states, arrival_to_door_minutes, door_to_light_minutes) ==
    ChainsFrom(ToEvents(states), 1, arrival_to_door_minutes, door_to_light_minutes)

\* lines 140-143: the days on which a chain of the tracker started
RECURSIVE ArrivalDaysByTracker(_, _)
ArrivalDaysByTracker(days, chains) ==
    IF chains = <<>> THEN days
    ELSE ArrivalDaysByTracker(Add1(days, Head(chains).arrival_entity, Day(Head(chains).arrival_at)),
                              Tail(chains))

\* lines 145-148: the chains by (arrival, door, light) entity, in first-seen order
RECURSIVE GroupChains(_, _)
GroupChains(grouped, chains) ==
    IF chains = <<>> THEN grouped
    ELSE LET chain == Head(chains)
             key == <<chain.arrival_entity, chain.door_entity, chain.light_entity>>
         IN  GroupChains(DSet(grouped, key, Append(DGet(grouped, key, <<>>), chain)),
                         Tail(chains))

RECURSIVE SumMinutes(_)
SumMinutes(items) ==
    IF items = <<>> THEN 0
    ELSE (Head(items).arrival_at % MinutesPerDay) + SumMinutes(Tail(items))

\* mutant of SupportDays: every chain counts, also the second of a day
SupportDays_CountsChains(items) == Len(items)

\* lines 154-155: the distinct days on which a chain of the group started
SupportDays(items) == Cardinality({Day(items[k].arrival_at) : k \in 1..Len(items)})

\* lines 151-200: the suggestion of each group that passes the thresholds; the
\* title, the yaml text and the type, texts made of the three entity ids, are
\* left out
RECURSIVE Suggestions(_, _, _, _)
Suggestions(grouped, arrival_days_by_tracker, min_support_days, min_confidence) ==
    IF grouped = <<>> THEN <<>>
    ELSE LET key == Head(grouped)[1]
             items == Head(grouped)[2]
             support == SupportDays(items)
             total_arrival_days == Cardinality(DGet(arrival_days_by_tracker, key[1], {}))
             avg_minutes == SumMinutes(items) \div Len(items)
             rest == Suggestions(Tail(grouped), arrival_days_by_tracker,
                                 min_support_days, min_confidence)
         IN  IF \/ total_arrival_days <= 0
                \/ support < min_support_days
                \/ support * 10000 < min_confidence * total_arrival_days
             THEN rest
             ELSE << [ arrival_entity |-> key[1], door_entity |-> key[2],
                       light_entity |-> key[3],
                       typical_arrival_time |-> <<avg_minutes \div 60, avg_minutes % 60>>,
                       support_days |-> support,
                       arrival_days |-> total_arrival_days,
                       confidence |-> Round4(support, total_arrival_days) ] >> \o rest

\* x > y on the sort key (confidence, support_days)
SuggestionGreater(x, y) ==
    \/ x.confidence > y.confidence
    \/ x.confidence = y.confidence /\ x.support_days > y.support_days

RECURSIVE InsertSuggestion(_, _)
InsertSuggestion(sorted, x) ==
    IF sorted = <<>> THEN <<x>>
    ELSE IF SuggestionGreater(x, Head(sorted)) THEN <<x>> \o sorted
    ELSE <<Head(sorted)>> \o InsertSuggestion(Tail(sorted), x)

\* suggestions.sort(key=(confidence, support_days), reverse=True)
RECURSIVE SortSuggestions(_)
SortSuggestions(items) ==
    IF items = <<>> THEN <<>>
    ELSE InsertSuggestion(SortSuggestions(SubSeq(items, 1, Len(items) - 1)), items[Len(items)])

BuildRoutineSuggestions(states, min_support_days, min_confidence, arrival_to_door_minutes, door_to_light_minutes) ==
    LET chains == FindArrivalChains(states, arrival_to_door_minutes, door_to_light_minutes)
    IN  IF chains = <<>> THEN <<>>
        ELSE SortSuggestions(Suggestions(GroupChains(EmptyDict, chains),
                                         ArrivalDaysByTracker(EmptyDict, chains),
                                         min_support_days, min_confidence))

\* ------------------------------------------- sequence_patterns._to_transitions
\* lines 49-57: the kept points by entity, in first-seen order
RECURSIVE GroupPoints(_, _)
GroupPoints(by_entity, states) ==
    IF states = <<>> THEN by_entity
    ELSE LET item == Head(states)
             entity_id == Strip(item.entity_id)
             ts == ParseTs(item)
         IN  IF ~HasDot(entity_id) \/ ts = None
             THEN GroupPoints(by_entity, Tail(states))
             ELSE GroupPoints(
                      DSet(by_entity, entity_id,
                           Append(DGet(by_entity, entity_id, <<>>),
                                  [ entity_id |-> entity_id, state |-> StripLower(item.state),
                                    timestamp |-> ts[1] ])),
                      Tail(states))

\* lines 63-76 for one entity
RECURSIVE PointTransitions(_, _)
PointTransitions(points, i) ==
    IF i > Len(points) THEN <<>>
    ELSE LET prev_s == points[i - 1].state
             curr_s == points[i].state
             rest == PointTransitions(points, i + 1)
         IN  IF prev_s = curr_s THEN rest
             ELSE << [ entity_id |-> points[i].entity_id,
                       domain |-> DomainOf(points[i].entity_id),
                       from_state |-> prev_s, to_state |-> curr_s,
                       timestamp |-> points[i].timestamp ] >> \o rest

RECURSIVE EntityTransitions(_)
EntityTransitions(by_entity) ==
    IF by_entity = <<>> THEN <<>>
    ELSE PointTransitions(SortByTimestamp(Head(by_entity)[2]), 2)
         \o EntityTransitions(Tail(by_entity))

\* _to_transitions
ToTransitions(states) == SortByTimestamp(EntityTransitions(GroupPoints(EmptyDict, states)))

\* --------------------------------- sequence_patterns.build_sequence_suggestions
ACTION_DOMAINS ==
    {"light", "switch", "climate", "cover", "fan", "lock", "media_player", "input_boolean"}

\* the states _trigger_signature and _action_signature ignore
NoiseStates == {"", "unknown", "unavailable", "none"}

\* a float: nan, or a finite number in thousandths
NaN == [nan |-> TRUE, milli |-> 0]
Finite(milli) == [nan |-> FALSE, milli |-> milli]

\* _try_float on the state strings of the histories: float(value), None when
\* it raises
TryFloat(value) ==
    CASE value = "20" -> Some(Finite(20000))
      [] value = "20.005" -> Some(Finite(20005))
      [] value = "21" -> Some(Finite(21000))
      [] value = "21.3" -> Some(Finite(21300))
      [] value = "nan" -> Some(NaN)
      [] OTHER -> None

Abs(x) == IF x < 0 THEN -x ELSE x

\* round(x) of a number x >= 0 given in thousandths: to the nearest integer,
\* a half to the even one
RoundHalfEven(milli) ==
    LET q == milli \div 1000
        r == milli % 1000
    IN  IF r < 500 THEN q
        ELSE IF r > 500 THEN q + 1
        ELSE IF q % 2 = 0 THEN q ELSE q + 1

\* the value of a signature, a text in the source, as <<text, number>>:
\* to_state as it is, f"value~{rounded}" with the number rounded, and
\* f"{rounded:.1f}" as a number of tenths
Text(state) == <<state, 0>>
Approx(rounded) == <<"value~", rounded>>
OneDecimal(tenths) == <<".1f", tenths>>

Signature(entity_id, kind, op, value) ==
    [entity_id |-> entity_id, kind |-> kind, op |-> op, value |-> value]

\* what a signature function does: it returns a signature or None, or raises
Returns(sig) == [raised |-> FALSE, sig |-> sig]
Raises == [raised |-> TRUE, sig |-> None]

\* mutant of TriggerSignature: a number that did not move is a discrete state
TriggerSignature_LevelOnlyFromText(ev) ==
    IF ev.to_state \in NoiseStates THEN Returns(None)
    ELSE LET prev_num == TryFloat(ev.from_state)
             curr_num == TryFloat(ev.to_state)
         IN  IF curr_num = None
             THEN Returns(Some(Signature(ev.entity_id, "state", "to", Text(ev.to_state))))
             ELSE IF curr_num[1].nan THEN Raises
             ELSE LET rounded == RoundHalfEven(curr_num[1].milli)
                  IN  IF prev_num = None
                      THEN Returns(Some(Signature(ev.entity_id, "numeric_state", "value",
                                                  Approx(rounded))))
                      ELSE IF ~prev_num[1].nan
                              /\ Abs(curr_num[1].milli - prev_num[1].milli) > 10
                      THEN Returns(Some(Signature(
                               ev.entity_id, "numeric_trend",
                               IF curr_num[1].milli > prev_num[1].milli THEN "up" ELSE "down",
                               Approx(rounded))))
                      ELSE Returns(Some(Signature(ev.entity_id, "state", "to",
                                                  Text(ev.to_state))))

\* _trigger_signature: round(nan) raises ValueError; a difference with nan is
\* nan, and abs(nan) > 0.01 is false
TriggerSignature(ev) ==
    IF ev.to_state \in NoiseStates THEN Returns(None)
    ELSE LET prev_num == TryFloat(ev.from_state)
             curr_num == TryFloat(ev.to_state)
         IN  IF curr_num = None
             THEN Returns(Some(Signature(ev.entity_id, "state", "to", Text(ev.to_state))))
             ELSE IF curr_num[1].nan THEN Raises
             ELSE LET rounded == RoundHalfEven(curr_num[1].milli)
                  IN  IF /\ prev_num # None
                         /\ ~prev_num[1].nan
                         /\ Abs(curr_num[1].milli - prev_num[1].milli) > 10
                      THEN Returns(Some(Signature(
                               ev.entity_id, "numeric_trend",
                               IF curr_num[1].milli > prev_num[1].milli THEN "up" ELSE "down",
                               Approx(rounded))))
                      ELSE Returns(Some(Signature(ev.entity_id, "numeric_state", "value",
                                                  Approx(rounded))))

\* mutant of ActionSignature: a transition of any domain is an action
ActionSignature_AnyDomain(ev) ==
    IF ev.to_state \in NoiseStates THEN Returns(None)
    ELSE IF ev.domain = "climate" /\ TryFloat(ev.to_state) # None
    THEN IF TryFloat(ev.to_state)[1].nan THEN Raises
         ELSE Returns(Some(Signature(
                  ev.entity_id, "set_temperature", "to",
                  OneDecimal(RoundHalfEven(2 * TryFloat(ev.to_state)[1].milli) * 5))))
    ELSE Returns(Some(Signature(ev.entity_id, "state", "to", Text(ev.to_state))))

\* _action_signature: round(curr_num * 2) / 2.0 to one decimal
ActionSignature(ev) ==
    IF ev.domain \notin ACTION_DOMAINS THEN Returns(None)
    ELSE IF ev.to_state \in NoiseStates THEN Returns(None)
    ELSE IF ev.domain = "climate" /\ TryFloat(ev.to_state) # None
    THEN IF TryFloat(ev.to_state)[1].nan THEN Raises
         ELSE Returns(Some(Signature(
                  ev.entity_id, "set_temperature", "to",
                  OneDecimal(RoundHalfEven(2 * TryFloat(ev.to_state)[1].milli) * 5))))
    ELSE Returns(Some(Signature(ev.entity_id, "state", "to", Text(ev.to_state))))

\* lines 143-147 raise as soon as one transition's trigger signature does
SignatureRaises(transitions) ==
    \E i \in 1..Len(transitions) : TriggerSignature(transitions[i]).raised

\* lines 142-147: the days of each trigger signature
RECURSIVE TriggerDays(_, _)
TriggerDays(trigger_days, transitions) ==
    IF transitions = <<>> THEN trigger_days
    ELSE LET ev == Head(transitions)
             trig == TriggerSignature(ev).sig
         IN  IF trig = None THEN TriggerDays(trigger_days, Tail(transitions))
             ELSE TriggerDays(Add1(trigger_days, trig[1], Day(ev.timestamp)),
                              Tail(transitions))

\* mutant of ChosenTrigger: the scan goes on past the window
RECURSIVE ChosenTrigger_NoWindow(_, _, _, _)
ChosenTrigger_NoWindow(transitions, idx, j, window_minutes) ==
    IF j < 1 THEN None
    ELSE LET prev_ev == transitions[j]
             trig_sig == TriggerSignature(prev_ev).sig
         IN  IF trig_sig # None /\ prev_ev.entity_id # transitions[idx].entity_id
             THEN Some(j)
             ELSE ChosenTrigger_NoWindow(transitions, idx, j - 1, window_minutes)

\* lines 156-166: the scan backward from j for the trigger of the action at
\* idx; the index of the chosen transition, indices counting from 1
RECURSIVE ChosenTrigger(_, _, _, _)
ChosenTrigger(transitions, idx, j, window_minutes) ==
    IF j < 1 THEN None
    ELSE LET prev_ev == transitions[j]
             trig_sig == TriggerSignature(prev_ev).sig
         IN  IF transitions[idx].timestamp - prev_ev.timestamp > window_minutes THEN None
             ELSE IF trig_sig # None /\ prev_ev.entity_id # transitions[idx].entity_id
             THEN Some(j)
             ELSE ChosenTrigger(transitions, idx, j - 1, window_minutes)

\* lines 151-169: the actions that got a trigger, from the action at idx on
RECURSIVE Pairing(_, _, _)
Pairing(transitions, idx, window_minutes) ==
    IF idx > Len(transitions) THEN <<>>
    ELSE LET rest == Pairing(transitions, idx + 1, window_minutes)
             chosen == ChosenTrigger(transitions, idx, idx - 1, window_minutes)
         IN  IF ActionSignature(transitions[idx]).sig = None \/ chosen = None THEN rest
             ELSE <<[action |-> idx, trigger |-> chosen[1]]>> \o rest

\* lines 171-172: the action events by (trigger signature, action signature)
RECURSIVE PairEvents(_, _, _)
PairEvents(pair_events, transitions, pairing) ==
    IF pairing = <<>> THEN pair_events
    ELSE LET action_ev == transitions[Head(pairing).action]
             key == << TriggerSignature(transitions[Head(pairing).trigger]).sig[1],
                       ActionSignature(action_ev).sig[1] >>
         IN  PairEvents(DSet(pair_events, key, Append(DGet(pair_events, key, <<>>), action_ev)),
                        transitions, Tail(pairing))

\* mutant of MatchedDays: every action event counts, also the second of a day
MatchedDays_CountsEvents(evs) == Len(evs)

\* lines 176-177: the distinct days of the action events of a pair
MatchedDays(evs) == Cardinality({Day(evs[k].timestamp) : k \in 1..Len(evs)})

\* lines 175-271: the rule of each pair that passes the thresholds; the title,
\* the service and the yaml text, texts made of the two signatures, are left out
RECURSIVE SequenceRules(_, _, _, _, _)
SequenceRules(pair_events, trigger_days, window_minutes, min_support_days, min_confidence) ==
    IF pair_events = <<>> THEN <<>>
    ELSE LET trigger_sig == Head(pair_events)[1][1]
             action_sig == Head(pair_events)[1][2]
             support_days == MatchedDays(Head(pair_events)[2])
             antecedent_days == Cardinality(DGet(trigger_days, trigger_sig, {}))
             rest == SequenceRules(Tail(pair_events), trigger_days, window_minutes,
                                   min_support_days, min_confidence)
         IN  IF \/ support_days < min_support_days
                \/ antecedent_days <= 0
                \/ support_days * 10000 < min_confidence * antecedent_days
             THEN rest
             ELSE << [ trigger |-> trigger_sig,
                       action |-> action_sig,
                       support_days |-> support_days,
                       antecedent_days |-> antecedent_days,
                       confidence |-> Round4(support_days, antecedent_days),
                       window_minutes |-> window_minutes ] >> \o rest

\* mutant of TopRules: the sort is ascending
TopRules_Ascending(suggestions, limit) ==
    LET sorted == SortSuggestions(suggestions)
        n == Len(sorted)
    IN  SubSeq([i \in 1..n |-> sorted[n + 1 - i]], 1, Min(n, Max(1, limit)))

\* lines 273-274: sorted by (confidence, support_days) descending, then
\* suggestions[: max(1, limit)]
TopRules(suggestions, limit) ==
    SubSeq(SortSuggestions(suggestions), 1, Min(Len(suggestions), Max(1, limit)))

\* lines 142-271 on the transitions: every rule that passes the thresholds
AllSequenceRules(transitions, window_minutes, min_support_days, min_confidence) ==
    SequenceRules(PairEvents(EmptyDict, transitions, Pairing(transitions, 1, window_minutes)),
                  TriggerDays(EmptyDict, transitions),
                  window_minutes, min_support_days, min_confidence)

\* build_sequence_suggestions: what it returns, or that it raised
BuildSequenceSuggestions(states, window_minutes, min_support_days, min_confidence, limit) ==
    LET transitions == ToTransitions(states)
    IN  IF transitions = <<>> THEN [raised |-> FALSE, out |-> <<>>]
        ELSE IF SignatureRaises(transitions) THEN [raised |-> TRUE, out |-> <<>>]
        ELSE [ raised |-> FALSE,
               out |-> TopRules(AllSequenceRules(transitions, window_minutes,
                                                 min_support_days, min_confidence), limit) ]

\* ------------------------------------------------------ threads and the lock
Threads == {"t1", "t2"}

\* the RLock that __init__ creates
Unlocked == [owner |-> None, count |-> 0]

\* mutant of CanAcquire: the lock excludes nobody
CanAcquire_Anyone(l, t) == TRUE

\* RLock.acquire goes through when the lock is free or the caller owns it
CanAcquire(l, t) == l.owner \in {None, Some(t)}

Acquired(l, t) == [owner |-> Some(t), count |-> l.count + 1]
Released(l) == IF l.count = 1 THEN Unlocked ELSE [l EXCEPT !.count = @ - 1]

\* the methods that read the counters under the lock
Readers == {"predict", "stats", "to_dict"}

\* the event lists the concurrent fits are given
ConcEventLists ==
    { << Ev("light.a", "on", D1H0) >>,
      << Ev("light.a", "off", D1H17), Ev("switch.b", "on", D1H0) >> }

\* the aggregate state: every counter of the model, thresholds left out
Aggregates(m) == [m EXCEPT !.min_support = 0, !.min_confidence = 0]

\* a thread outside any call
Idle ==
    [pc |-> "idle", op |-> "none", events |-> <<>>, todo |-> <<>>, seen |-> NoDaysSeen, obs |-> None]

\* the thread is inside the "with self._lock" block of its call
InBlock(th) == th.pc \in {"locked", "loop", "exit"}

ExtractIdle == snapshots = <<>> /\ shuffled = <<>> /\ emitted = None
\* main.py as imported: nothing trained yet
MainGlobals == [last_trained_at |-> None, last_training_samples |-> 0]

ConcIdle ==
    /\ threads = [t \in Threads |-> Idle]
    /\ lock = Unlocked
    /\ stable = None
    /\ calls = 0
    /\ globals = MainGlobals

Init ==
    /\ model = NewModel(DefaultMinSupport, DefaultMinConfidence)
    /\ file = Absent
    /\ saved = None
    /\ last = [op |-> "init"]
    /\ used = 0
    /\ ExtractIdle /\ ConcIdle

\* model.fit(events)
Fit(events) ==
    /\ used + Len(events) <= MaxEvents
    /\ model' = FitModel(model, events)
    /\ last' = [op |-> "fit", events |-> events, prior |-> model.trained_actions]
    /\ used' = used + Len(events)
    /\ UNCHANGED <<ExtractVars, ConcVars, file, saved>>

\* model.set_thresholds(min_support, min_confidence)
SetThresholds(min_support, min_confidence) ==
    /\ model' = SetThresholdsModel(model, min_support, min_confidence)
    /\ last' = [op |-> "set_thresholds"]
    /\ UNCHANGED <<ExtractVars, ConcVars, file, saved, used>>

\* model.predict(**q)
Predict(q) ==
    /\ last' = [op |-> "predict", q |-> q, out |-> PredictModel(model, q)]
    /\ UNCHANGED <<ExtractVars, ConcVars, model, file, saved, used>>

\* MODEL_STORE.save(model)
Save ==
    /\ file' = SaveFile(model)
    /\ saved' = Some(model)
    /\ last' = [op |-> "save"]
    /\ UNCHANGED <<ExtractVars, ConcVars, model, used>>

\* the file as an earlier version of save wrote it
WriteLegacy(drops) ==
    /\ saved # None
    /\ file = SaveFile(saved[1])
    /\ file' = Document(DropFields(file.payload, drops))
    /\ last' = [op |-> "write_legacy", drops |-> drops]
    /\ UNCHANGED <<ExtractVars, ConcVars, model, saved, used>>

\* the file damaged outside the program
DamageFile(kind) ==
    /\ WellFormed(file)
    /\ file' = Damage(file, kind)
    /\ last' = [op |-> "damage", kind |-> kind]
    /\ UNCHANGED <<ExtractVars, ConcVars, model, saved, used>>

\* MODEL_STORE.load()
Load ==
    /\ last' = [op |-> "load", out |-> LoadFile(file)]
    /\ UNCHANGED <<ExtractVars, ConcVars, model, file, saved, used>>

\* main._build_model_from_options(options)
BuildModelFromOptions(min_support, min_confidence) ==
    LET loaded == LoadFile(file)
    IN  /\ model' = IF loaded = None
                    THEN NewModel(min_support, min_confidence)
                    ELSE SetThresholdsModel(loaded[1], min_support, min_confidence)
        /\ last' = [op |-> "build", loaded |-> loaded # None]
        /\ UNCHANGED <<ExtractVars, ConcVars, file, saved, used>>

\* ------------------------------------------------ Spec: fit and thresholds
Next ==
    \/ \E events \in EventLists[MaxEvents - used] : Fit(events)
    \/ \E s \in SupportArgs, c \in ConfidenceArgs : SetThresholds(s, c)

Spec == Init /\ [][Next]_vars

\* --------------------------------------- SpecPredict: predict on any model
\* the model is one a fit left, or one loaded from what save wrote, or one
\* loaded from a legacy document
InitPredict ==
    /\ \E m \in TrainedModels :
         \E f \in {Absent, SaveFile(m), Document(DropFields(ToDict(m), DayFields \cup TotalFields))} :
            /\ file = f
            /\ model = IF f = Absent THEN m ELSE LoadFile(f)[1]
    /\ saved = None
    /\ last = [op |-> "init"]
    /\ used = 0
    /\ ExtractIdle /\ ConcIdle

NextPredict ==
    \E q \in Queries : last.op = "init" /\ Predict(q)

SpecPredict == InitPredict /\ [][NextPredict]_vars

\* ------------------------------------------------ SpecStore: save and load
\* the models a fit of at most MaxStoreEvents events leaves behind
StoreModels ==
    {FitModel(NewModel(2, 5000), events) : events \in EventLists[MaxStoreEvents]}

InitStore ==
    /\ model \in StoreModels
    /\ file = Absent
    /\ saved = None
    /\ last = [op |-> "init"]
    /\ used = 0
    /\ ExtractIdle /\ ConcIdle

\* option values after _parse_int / _parse_float
OptionThresholds == {<<1, 6000>>}

NextStore ==
    \/ Save
    \/ \E drops \in LegacyDrops : WriteLegacy(drops)
    \/ \E kind \in Damages : DamageFile(kind)
    \/ Load
    \/ \E t \in OptionThresholds : BuildModelFromOptions(t[1], t[2])

SpecStore == InitStore /\ [][NextStore]_vars

\* ----------------------------- SpecExtract: extraction in any snapshot order
InitExtract ==
    /\ snapshots \in SnapshotLists
    /\ shuffled = snapshots
    /\ emitted = None
    /\ model = NewModel(DefaultMinSupport, DefaultMinConfidence)
    /\ file = Absent
    /\ saved = None
    /\ last = [op |-> "init"]
    /\ used = 0
    /\ ConcIdle

\* the caller hands the snapshots over in another order: one transposition
Shuffle(i) ==
    /\ emitted = None
    /\ i < Len(shuffled)
    /\ shuffled[i] # shuffled[i + 1]
    /\ shuffled' = [shuffled EXCEPT ![i] = shuffled[i + 1], ![i + 1] = shuffled[i]]
    /\ UNCHANGED <<model, file, saved, last, used, snapshots, emitted, ConcVars>>

\* action_events_from_states(ha_states), on either order
Extract ==
    /\ emitted = None
    /\ emitted' = Some([ original |-> ActionEventsFromStates(snapshots),
                         shuffled |-> ActionEventsFromStates(shuffled) ])
    /\ UNCHANGED <<model, file, saved, last, used, snapshots, shuffled, ConcVars>>

NextExtract ==
    \/ \E i \in 1..MaxSnapshots : Shuffle(i)
    \/ Extract

SpecExtract == InitExtract /\ [][NextExtract]_vars

\* ------------------------------- SpecConc: concurrent calls on one instance
InitConc ==
    /\ model = NewModel(DefaultMinSupport, DefaultMinConfidence)
    /\ file = Absent
    /\ saved = None
    /\ last = [op |-> "init"]
    /\ used = 0
    /\ ExtractIdle
    /\ threads = [t \in Threads |-> Idle]
    /\ lock = Unlocked
    /\ stable = Aggregates(model)
    /\ calls = 0
    /\ globals = MainGlobals

\* thread t calls a method of the model
Call(t, op, events) ==
    /\ threads[t].pc = "idle"
    /\ calls < MaxCalls
    /\ threads' = [threads EXCEPT ![t] =
                      [Idle EXCEPT !.pc = "enter", !.op = op, !.events = events, !.todo = events]]
    /\ calls' = calls + 1
    /\ UNCHANGED <<model, file, saved, last, used, ExtractVars, lock, stable, globals>>

\* with self._lock: entry
Acquire(t) ==
    /\ threads[t].pc = "enter"
    /\ CanAcquire(lock, t)
    /\ lock' = Acquired(lock, t)
    /\ threads' = [threads EXCEPT ![t].pc = "locked"]
    /\ UNCHANGED <<model, file, saved, last, used, ExtractVars, stable, calls, globals>>

\* fit, lines 60-75: the counters are cleared
FitClearStep(t) ==
    /\ threads[t].pc = "locked" /\ threads[t].op = "fit"
    /\ model' = FitClear(model)
    /\ threads' = [threads EXCEPT ![t].pc = "loop", ![t].seen = NoDaysSeen]
    /\ UNCHANGED <<file, saved, last, used, ExtractVars, lock, stable, calls, globals>>

\* fit, lines 77-137: one pass of the loop
FitEventStep(t) ==
    /\ threads[t].pc = "loop" /\ threads[t].todo # <<>>
    /\ LET acc == FitEvent([m |-> model, seen |-> threads[t].seen], Head(threads[t].todo))
       IN  /\ model' = acc.m
           /\ threads' = [threads EXCEPT ![t].seen = acc.seen, ![t].todo = Tail(@)]
    /\ UNCHANGED <<file, saved, last, used, ExtractVars, lock, stable, calls, globals>>

\* fit, lines 139-156: the day counts are assigned
FitFinishStep(t) ==
    /\ threads[t].pc = "loop" /\ threads[t].todo = <<>>
    /\ model' = FitFinish([m |-> model, seen |-> threads[t].seen])
    /\ stable' = Aggregates(model')
    /\ threads' = [threads EXCEPT ![t].pc = "exit"]
    /\ UNCHANGED <<file, saved, last, used, ExtractVars, lock, calls, globals>>

\* predict, stats, to_dict: the counters are read
Read(t) ==
    /\ threads[t].pc = "locked" /\ threads[t].op \in Readers
    /\ threads' = [threads EXCEPT ![t].pc = "exit", ![t].obs = Some(Aggregates(model))]
    /\ UNCHANGED <<model, file, saved, last, used, ExtractVars, lock, stable, calls, globals>>

\* set_thresholds: the thresholds are assigned
SetThresholdsStep(t, min_support, min_confidence) ==
    /\ threads[t].pc = "locked" /\ threads[t].op = "set_thresholds"
    /\ model' = SetThresholdsModel(model, min_support, min_confidence)
    /\ threads' = [threads EXCEPT ![t].pc = "exit"]
    /\ UNCHANGED <<file, saved, last, used, ExtractVars, lock, stable, calls, globals>>

\* with self._lock: exit
Release(t) ==
    /\ threads[t].pc = "exit"
    /\ lock' = Released(lock)
    /\ threads' = [threads EXCEPT ![t] = Idle]
    /\ UNCHANGED <<model, file, saved, last, used, ExtractVars, stable, calls, globals>>

NextConc ==
    \E t \in Threads :
        \/ \E events \in ConcEventLists : Call(t, "fit", events)
        \/ \E op \in Readers \cup {"set_thresholds"} : Call(t, op, <<>>)
        \/ Acquire(t)
        \/ FitClearStep(t)
        \/ FitEventStep(t)
        \/ FitFinishStep(t)
        \/ Read(t)
        \/ SetThresholdsStep(t, 2, 5000)
        \/ Release(t)

SpecConc == InitConc /\ [][NextConc]_vars

\* --------------------------- SpecFrame: calls that leave the counters alone
\* arguments UserActionModel(...) is constructed with; __init__ stores them
ConstructorArgs == {<<2, 5000>>, <<0, 12000>>}

\* predict probes with a limit of 0, below 0 and 2
LimitQueries ==
    [ when : {D1H0},
      limit : {-1, 0, 2},
      min_support : {None, Some(0)},
      min_confidence : {None, Some(0)},
      allow_relaxed_fallback : {TRUE},
      one_per_entity : BOOLEAN ]

InitFrame ==
    /\ \E t \in ConstructorArgs : \E m \in StoreModels :
          model = [m EXCEPT !.min_support = t[1], !.min_confidence = t[2]]
    /\ file = Absent
    /\ saved = None
    /\ last = [op |-> "init"]
    /\ used = 0
    /\ ExtractIdle /\ ConcIdle

\* model = UserActionModel(min_support, min_confidence)
Construct(min_support, min_confidence) ==
    /\ model' = NewModel(min_support, min_confidence)
    /\ last' = [op |-> "construct"]
    /\ UNCHANGED <<ExtractVars, ConcVars, file, saved, used>>

\* model.stats()
Stats ==
    /\ last' = [op |-> "stats", out |-> StatsModel(model)]
    /\ UNCHANGED <<ExtractVars, ConcVars, model, file, saved, used>>

\* model.to_dict()
CallToDict ==
    /\ last' = [op |-> "to_dict", out |-> ToDict(model)]
    /\ UNCHANGED <<ExtractVars, ConcVars, model, file, saved, used>>

NextFrame ==
    \/ \E t \in ConstructorArgs : Construct(t[1], t[2])
    \/ \E q \in LimitQueries : Predict(q)
    \/ Stats
    \/ CallToDict
    \/ \E s \in SupportArgs, c \in ConfidenceArgs : SetThresholds(s, c)

SpecFrame == InitFrame /\ [][NextFrame]_vars

\* ------------------------------------ SpecRoutine: the miners on snapshots
\* min_support_days and min_confidence after _parse_int / _parse_float
RoutineOptions == {<<1, 4000>>, <<1, 6000>>, <<3, 4000>>}

InitRoutine ==
    /\ snapshots \in RoutineLists
    /\ shuffled = snapshots
    /\ emitted = None
    /\ model = NewModel(DefaultMinSupport, DefaultMinConfidence)
    /\ file = Absent
    /\ saved = None
    /\ last = [op |-> "init"]
    /\ used = 0
    /\ ConcIdle

\* find_arrival_chains(states)
FindChains ==
    /\ emitted = None
    /\ emitted' = Some([ op |-> "find_arrival_chains",
                         out |-> FindArrivalChains(snapshots, DefaultWindowMinutes,
                                                   DefaultWindowMinutes) ])
    /\ UNCHANGED <<model, file, saved, last, used, snapshots, shuffled, ConcVars>>

\* build_routine_suggestions(states, min_support_days, min_confidence)
BuildSuggestions(min_support_days, min_confidence) ==
    /\ emitted = None
    /\ emitted' = Some([ op |-> "build_routine_suggestions",
                         min_support_days |-> min_support_days,
                         min_confidence |-> min_confidence,
                         out |-> BuildRoutineSuggestions(snapshots, min_support_days,
                                                         min_confidence, DefaultWindowMinutes,
                                                         DefaultWindowMinutes) ])
    /\ UNCHANGED <<model, file, saved, last, used, snapshots, shuffled, ConcVars>>

\* _to_transitions(states), the first step of build_sequence_suggestions
MineTransitions ==
    /\ emitted = None
    /\ emitted' = Some([op |-> "to_transitions", out |-> ToTransitions(snapshots)])
    /\ UNCHANGED <<model, file, saved, last, used, snapshots, shuffled, ConcVars>>

\* action_events_from_states(states)
ExtractEvents ==
    /\ emitted = None
    /\ emitted' = Some([ op |-> "action_events_from_states",
                         out |-> ActionEventsFromStates(snapshots) ])
    /\ UNCHANGED <<model, file, saved, last, used, snapshots, shuffled, ConcVars>>

NextRoutine ==
    \/ FindChains
    \/ \E o \in RoutineOptions : BuildSuggestions(o[1], o[2])
    \/ MineTransitions
    \/ ExtractEvents

SpecRoutine == InitRoutine /\ [][NextRoutine]_vars

\* --------------------------- SpecSequence: the sequence miner on histories
\* the snapshots a history may be extended with; times are minutes, the second
\* day starts at 1440
SequenceSnapshots ==
    { Snapshot("binary_sensor.motion", "on", Iso(60), None),
      Snapshot("binary_sensor.motion", "off", Iso(62), None),
      Snapshot("binary_sensor.motion", "on", Iso(1495), None),
      Snapshot("light.hall", "on", Iso(62), None),
      Snapshot("light.hall", "off", Iso(100), None),
      Snapshot("light.hall", "on", Iso(1500), None),
      Snapshot("sensor.temp", "21", Iso(61), None),
      Snapshot("sensor.temp", "21", Iso(62), None),
      Snapshot("sensor.temp", "20.005", Iso(61), None),
      Snapshot("sensor.temp", "NaN", Iso(61), None),
      Snapshot("sensor.temp", "Unknown", Iso(61), None),
      Snapshot("sensor.temp", "off", Iso(90), None),
      Snapshot("climate.room", "21.3", Iso(70), None) }

\* every entity at rest
AtRest ==
    << Snapshot("binary_sensor.motion", "off", Iso(0), None),
       Snapshot("light.hall", "off", Iso(0), None),
       Snapshot("sensor.temp", "20", Iso(0), None),
       Snapshot("climate.room", "heat", Iso(0), None) >>

\* motion at 01:00, the light two minutes later
Evening ==
    AtRest \o << Snapshot("binary_sensor.motion", "on", Iso(60), None),
                 Snapshot("light.hall", "on", Iso(62), None) >>

\* motion at 23:50, the light on at 23:55, off at 23:58, on again at 00:05
Midnight ==
    << Snapshot("binary_sensor.motion", "off", Iso(0), None),
       Snapshot("light.hall", "off", Iso(0), None),
       Snapshot("binary_sensor.motion", "on", Iso(1430), None),
       Snapshot("light.hall", "on", Iso(1435), None),
       Snapshot("light.hall", "off", Iso(1438), None),
       Snapshot("light.hall", "on", Iso(1445), None) >>

\* one day of the two entities: motion on at 18:00, the light on at 18:02,
\* each back to off at its own time of the day
DayOfTwo(day, motion_off, light_off) ==
    << Snapshot("binary_sensor.motion", "off", Iso(day * MinutesPerDay + motion_off), None),
       Snapshot("binary_sensor.motion", "on", Iso(day * MinutesPerDay + 1080), None),
       Snapshot("light.hall", "off", Iso(day * MinutesPerDay + light_off), None),
       Snapshot("light.hall", "on", Iso(day * MinutesPerDay + 1082), None) >>

FiveDays(motion_off, light_off) ==
    DayOfTwo(0, motion_off, light_off) \o DayOfTwo(1, motion_off, light_off)
        \o DayOfTwo(2, motion_off, light_off) \o DayOfTwo(3, motion_off, light_off)
        \o DayOfTwo(4, motion_off, light_off)

\* the times of the day (12:00, 17:00, 17:30, 17:45) at which the two go off
OffTimes == {<<720, 1020>>, <<1020, 720>>, <<1020, 1020>>, <<1020, 1050>>, <<1020, 1065>>}

FiveDayHistories == {FiveDays(t[1], t[2]) : t \in OffTimes}

SequenceLists ==
    FiveDayHistories
        \cup { known \o more : known \in {AtRest, Evening, Midnight},
                               more \in SeqsUpTo(SequenceSnapshots, MaxSequenceSnapshots) }

\* window_minutes, min_support_days, min_confidence and limit of a call
SequenceOptions ==
    { <<30, 3, 5000, 20>>, <<30, 1, 0, 20>>, <<30, 1, 0, 1>>, <<30, 1, 0, 0>>,
      <<30, 1, 10000, -1>>, <<10, 1, 3500, 20>> }

InitSequence ==
    /\ snapshots \in SequenceLists
    /\ shuffled = snapshots
    /\ emitted = None
    /\ model = NewModel(DefaultMinSupport, DefaultMinConfidence)
    /\ file = Absent
    /\ saved = None
    /\ last = [op |-> "init"]
    /\ used = 0
    /\ ConcIdle

\* build_sequence_suggestions(states, window_minutes, min_support_days,
\* min_confidence, limit)
MineSequences(window_minutes, min_support_days, min_confidence, limit) ==
    /\ emitted = None
    /\ LET result == BuildSequenceSuggestions(snapshots, window_minutes, min_support_days,
                                              min_confidence, limit)
       IN  emitted' = Some([ op |-> "build_sequence_suggestions",
                             window_minutes |-> window_minutes,
                             min_support_days |-> min_support_days,
                             min_confidence |-> min_confidence,
                             limit |-> limit,
                             raised |-> result.raised,
                             out |-> result.out ])
    /\ UNCHANGED <<model, file, saved, last, used, snapshots, shuffled, ConcVars>>

\* lines 149-172 of build_sequence_suggestions alone: which transition each
\* action was paired with
PairTriggers(window_minutes) ==
    /\ emitted = None
    /\ ~SignatureRaises(ToTransitions(snapshots))
    /\ emitted' = Some([ op |-> "pair",
                         window_minutes |-> window_minutes,
                         out |-> Pairing(ToTransitions(snapshots), 1, window_minutes) ])
    /\ UNCHANGED <<model, file, saved, last, used, snapshots, shuffled, ConcVars>>

\* _trigger_signature(ev) of one transition of the history
ClassifyTrigger(i) ==
    /\ emitted = None
    /\ i \in 1..Len(ToTransitions(snapshots))
    /\ emitted' = Some([ op |-> "trigger_signature",
                         ev |-> ToTransitions(snapshots)[i],
                         result |-> TriggerSignature(ToTransitions(snapshots)[i]) ])
    /\ UNCHANGED <<model, file, saved, last, used, snapshots, shuffled, ConcVars>>

\* _action_signature(ev) of one transition of the history
ClassifyAction(i) ==
    /\ emitted = None
    /\ i \in 1..Len(ToTransitions(snapshots))
    /\ emitted' = Some([ op |-> "action_signature",
                         ev |-> ToTransitions(snapshots)[i],
                         result |-> ActionSignature(ToTransitions(snapshots)[i]) ])
    /\ UNCHANGED <<model, file, saved, last, used, snapshots, shuffled, ConcVars>>

NextSequence ==
    \/ \E o \in SequenceOptions : MineSequences(o[1], o[2], o[3], o[4])
    \/ \E window_minutes \in {10, 30} : PairTriggers(window_minutes)
    \/ \E i \in 1..(MaxSequenceSnapshots + 4) : ClassifyTrigger(i)
    \/ \E i \in 1..(MaxSequenceSnapshots + 4) : ClassifyAction(i)

SpecSequence == InitSequence /\ [][NextSequence]_vars

\* ------------------------- SpecRequest: the request handlers of main.py
\* Flask serves each request on a thread of its own; the handlers share the
\* model file and the two globals, and take no lock

\* the file between the open(..., "w") and the write of Path.write_text
Truncated == [kind |-> "empty"]

\* a thread that serves no request
Resting ==
    [ pc |-> "idle", op |-> "none", run |-> 0, events |-> <<>>, model |-> None,
      loaded |-> FALSE, after_train |-> FALSE ]

\* the requests: /api/train, /api/train-from-events, /api/predict, /api/model-info
Trainers == {"train", "train_from_events"}
Lookups == {"predict", "model_info"}

InitRequest ==
    /\ model = NewModel(DefaultMinSupport, DefaultMinConfidence)
    /\ file = Absent
    /\ saved = None
    /\ last = [op |-> "init"]
    /\ used = 0
    /\ ExtractIdle
    /\ threads = [t \in Threads |-> Resting]
    /\ lock = Unlocked
    /\ stable = None
    /\ calls = 0
    /\ globals = MainGlobals

\* a request arrives; events are the events action_events_from_states makes
\* of the history or of the body
Arrive(t, op, events) ==
    /\ threads[t].pc = "idle"
    /\ calls < MaxCalls
    /\ calls' = calls + 1
    /\ threads' = [threads EXCEPT ![t] =
           [ pc |-> IF op = "train" THEN "fetch" ELSE "load",
             op |-> op, run |-> calls + 1,
             events |-> IF op \in Trainers THEN events ELSE <<>>,
             model |-> None, loaded |-> FALSE, after_train |-> stable # None ]]
    /\ UNCHANGED <<model, file, saved, last, used, ExtractVars, lock, stable, globals>>

\* train, lines 727-730: the history came, or the fetch failed and 502 is returned
Fetch(t, ok) ==
    /\ threads[t].pc = "fetch"
    /\ threads' = [threads EXCEPT ![t] = IF ok THEN [@ EXCEPT !.pc = "load"] ELSE Resting]
    /\ UNCHANGED <<model, file, saved, last, used, ExtractVars, lock, stable, calls, globals>>

\* _build_model_from_options, and MODEL_STORE.load() of model_info: the file
\* is read as it is now
LoadModel(t, min_support, min_confidence) ==
    /\ threads[t].pc = "load"
    /\ LET found == LoadFile(file)
           built == IF found = None THEN NewModel(min_support, min_confidence)
                    ELSE SetThresholdsModel(found[1], min_support, min_confidence)
       IN  threads' = [threads EXCEPT ![t] =
               [@ EXCEPT !.pc = IF threads[t].op \in Trainers THEN "fit" ELSE "respond",
                         !.loaded = found # None,
                         !.model = IF threads[t].op = "model_info" THEN found
                                   ELSE Some(built)]]
    /\ UNCHANGED <<model, file, saved, last, used, ExtractVars, lock, stable, calls, globals>>

\* model.fit(events) on the request's own model object
FitRequest(t) ==
    /\ threads[t].pc = "fit"
    /\ threads' = [threads EXCEPT ![t] =
           [@ EXCEPT !.pc = "open", !.model = Some(FitModel(threads[t].model[1], threads[t].events))]]
    /\ UNCHANGED <<model, file, saved, last, used, ExtractVars, lock, stable, calls, globals>>

\* MODEL_STORE.save, first half: write_text opens the file, which empties it
SaveOpen(t) ==
    /\ threads[t].pc = "open"
    /\ file' = Truncated
    /\ threads' = [threads EXCEPT ![t] = [@ EXCEPT !.pc = "write"]]
    /\ UNCHANGED <<model, saved, last, used, ExtractVars, lock, stable, calls, globals>>

\* what the file holds after the text of m is written from position 0: the
\* text; laid over a text another request wrote meanwhile, the text when it
\* is no shorter than that one, else the text with the other's tail, no json
Written(f, m) == IF f = Truncated THEN {SaveFile(m)} ELSE {SaveFile(m), NotJson}

\* MODEL_STORE.save, second half: the text is written
SaveWrite(t) ==
    /\ threads[t].pc = "write"
    /\ file' \in Written(file, threads[t].model[1])
    /\ saved' = Some([ run |-> threads[t].run, samples |-> Len(threads[t].events),
                       model |-> threads[t].model[1] ])
    /\ threads' = [threads EXCEPT ![t] = [@ EXCEPT !.pc = "trained_at"]]
    /\ UNCHANGED <<model, last, used, ExtractVars, lock, stable, calls, globals>>

\* last_trained_at = datetime.now(...): the time at which this run got here
SetTrainedAt(t) ==
    /\ threads[t].pc = "trained_at"
    /\ globals' = [globals EXCEPT !.last_trained_at = Some(threads[t].run)]
    /\ threads' = [threads EXCEPT ![t] = [@ EXCEPT !.pc = "samples"]]
    /\ UNCHANGED <<model, file, saved, last, used, ExtractVars, lock, stable, calls>>

\* last_training_samples = len(events)
SetTrainingSamples(t) ==
    /\ threads[t].pc = "samples"
    /\ globals' = [globals EXCEPT !.last_training_samples = Len(threads[t].events)]
    /\ threads' = [threads EXCEPT ![t] = [@ EXCEPT !.pc = "respond"]]
    /\ UNCHANGED <<model, file, saved, last, used, ExtractVars, lock, stable, calls>>

\* return jsonify(...): the request is over
Respond(t) ==
    /\ threads[t].pc = "respond"
    /\ stable' = IF threads[t].op \in Trainers /\ threads[t].model[1].trained_actions >= 1
                 THEN threads[t].model ELSE stable
    /\ threads' = [threads EXCEPT ![t] = Resting]
    /\ UNCHANGED <<model, file, saved, last, used, ExtractVars, lock, calls, globals>>

NextRequest ==
    \E t \in Threads :
        \/ \E op \in Trainers \cup Lookups, events \in ConcEventLists : Arrive(t, op, events)
        \/ \E ok \in BOOLEAN : Fetch(t, ok)
        \/ \E o \in OptionThresholds : LoadModel(t, o[1], o[2])
        \/ FitRequest(t)
        \/ SaveOpen(t)
        \/ SaveWrite(t)
        \/ SetTrainedAt(t)
        \/ SetTrainingSamples(t)
        \/ Respond(t)

SpecRequest == InitRequest /\ [][NextRequest]_vars

\* ------------- SpecLegacy: the training runs of ha-addon-base/example_addon
\* the threads that start training runs: two Flask request threads and the
\* nightly trainer
LegacyThreads == Threads \cup {"nightly"}

\* main.py of the legacy addon as imported
LegacyGlobals == [training_in_progress |-> FALSE]

\* /api/train and /api/train-advanced; the nightly trainer calls the second
TrainingRuns == {"train_now", "train_advanced_models"}

Waiting == [pc |-> "idle", op |-> "none", outcome |-> "none"]

InitLegacy ==
    /\ model = NewModel(DefaultMinSupport, DefaultMinConfidence)
    /\ file = Absent
    /\ saved = None
    /\ last = [op |-> "init"]
    /\ used = 0
    /\ ExtractIdle
    /\ threads = [t \in LegacyThreads |-> Waiting]
    /\ lock = Unlocked
    /\ stable = None
    /\ calls = 0
    /\ globals = LegacyGlobals

\* a POST arrives on a request thread, or the nightly trainer wakes up
BeginRun(t, op) ==
    /\ threads[t].pc = "idle"
    /\ t = "nightly" => op = "train_advanced_models"
    /\ calls < MaxCalls
    /\ calls' = calls + 1
    /\ threads' = [threads EXCEPT ![t] = [pc |-> "check", op |-> op, outcome |-> "none"]]
    /\ UNCHANGED <<model, file, saved, last, used, ExtractVars, lock, stable, globals>>

\* "if training_in_progress: return ... 409": the flag is read
CheckInProgress(t) ==
    /\ threads[t].pc = "check"
    /\ threads' = [threads EXCEPT ![t] =
           IF globals.training_in_progress
           THEN [pc |-> "idle", op |-> "none", outcome |-> "busy"]
           ELSE [@ EXCEPT !.pc = "set"]]
    /\ UNCHANGED <<model, file, saved, last, used, ExtractVars, lock, stable, calls, globals>>

\* "training_in_progress = True", a statement of its own after the test
SetInProgress(t) ==
    /\ threads[t].pc = "set"
    /\ globals' = [globals EXCEPT !.training_in_progress = TRUE]
    /\ threads' = [threads EXCEPT ![t] = [@ EXCEPT !.pc = "training"]]
    /\ UNCHANGED <<model, file, saved, last, used, ExtractVars, lock, stable, calls>>

\* the try block: the history is fetched and the models are fitted, or an
\* exception is raised
TrainingDone(t, outcome) ==
    /\ threads[t].pc = "training"
    /\ threads' = [threads EXCEPT ![t] = [@ EXCEPT !.pc = "reset", !.outcome = outcome]]
    /\ UNCHANGED <<model, file, saved, last, used, ExtractVars, lock, stable, calls, globals>>

\* "training_in_progress = False" at the end of the try block and in the
\* except block, and the return
ResetInProgress(t) ==
    /\ threads[t].pc = "reset"
    /\ globals' = [globals EXCEPT !.training_in_progress = FALSE]
    /\ threads' = [threads EXCEPT ![t] = [@ EXCEPT !.pc = "idle", !.op = "none"]]
    /\ UNCHANGED <<model, file, saved, last, used, ExtractVars, lock, stable, calls>>

NextLegacy ==
    \E t \in LegacyThreads :
        \/ \E op \in TrainingRuns : BeginRun(t, op)
        \/ CheckInProgress(t)
        \/ SetInProgress(t)
        \/ \E outcome \in {"ok", "error"} : TrainingDone(t, outcome)
        \/ ResetInProgress(t)

SpecLegacy == InitLegacy /\ [][NextLegacy]_vars

\* ================================================================== claims
\* ---- helpers of the claims: the statistics counted directly from the events
Relevant(events) == {i \in 1..Len(events) : IsRelevantState(events[i].to_state)}

\* scope is Some(slot) for the slot tiers and None for the global tiers
InScope(ev, scope) == scope = None \/ Slot(ev.timestamp) = scope[1]

\* distinct calendar days on which the entity reached the state, in scope
StateDays(events, scope, entity_id, state) ==
    { events[i].timestamp.day : i \in
        { j \in Relevant(events) :
            /\ InScope(events[j], scope)
            /\ events[j].entity_id = entity_id
            /\ StripLower(events[j].to_state) = state } }

\* distinct calendar days on which the entity had any relevant event, in scope
EntityDays(events, scope, entity_id) ==
    { events[i].timestamp.day : i \in
        { j \in Relevant(events) :
            InScope(events[j], scope) /\ events[j].entity_id = entity_id } }

\* raw number of events of the entity reaching the state, in scope
StateEvents(events, scope, entity_id, state) ==
    { j \in Relevant(events) :
        /\ InScope(events[j], scope)
        /\ events[j].entity_id = entity_id
        /\ StripLower(events[j].to_state) = state }

SlotSources == {"time_slot", "time_slot_relaxed_support"}

ScopeOf(p, q) == IF p.source \in SlotSources THEN Some(Slot(q.when)) ELSE None

\* queries that return every candidate of the tier they stop at
OpenQueries ==
    { q \in Queries : /\ q.min_support = Some(0) /\ q.min_confidence = Some(0)
                      /\ q.limit = 10 /\ ~q.one_per_entity }

\* C4: after fit(E) on a model in any prior state, the whole aggregate state
\* (every counter map, the global total, the trained-action count) is the one
\* a freshly constructed model with the same thresholds has after fit(E).
C4_FitReplacesState ==
    last.op = "fit" =>
        model = FitFinish(FitLoop([m |-> NewModel(model.min_support, model.min_confidence),
                                   seen |-> NoDaysSeen], last.events))

\* C4 witness: a fit with relevant events on a model an earlier fit had trained
C4_Witness ==
    /\ last.op = "fit"
    /\ last.prior > 0
    /\ model.trained_actions > 0
    /\ model.trained_actions < last.prior + Len(last.events)

\* C8: in the predictions of a fitted model, support is the number of distinct
\* days on which the entity reached the state (in the queried slot for the
\* slot tiers, over all events for the global tiers) and confidence is that
\* number over the number of distinct days the entity had any relevant event
\* in the same scope.
C8_DayCounts ==
    last.op = "fit" =>
        \A q \in OpenQueries :
            LET out == PredictModel(model, q)
            IN  /\ ~out.raised
                /\ \A i \in 1..Len(out.predictions) :
                     LET p == out.predictions[i]
                         days == StateDays(last.events, ScopeOf(p, q), p.entity_id, p.state)
                         all == EntityDays(last.events, ScopeOf(p, q), p.entity_id)
                     IN  /\ p.support = Cardinality(days)
                         /\ p.confidence = Round4(Cardinality(days), Cardinality(all))

\* C8 witness: a prediction whose state was reached twice on its only day
C8_Witness ==
    /\ last.op = "fit"
    /\ \E q \in OpenQueries :
         LET out == PredictModel(model, q)
         IN  \E i \in 1..Len(out.predictions) :
               LET p == out.predictions[i]
               IN  /\ p.support = 1
                   /\ Cardinality(StateEvents(last.events, ScopeOf(p, q),
                                              p.entity_id, p.state)) = 2

\* ---- helpers of the claims about predict
Threshold(arg, configured) == IF arg = None THEN configured ELSE arg[1]

TierSource ==
    <<"time_slot", "time_slot_relaxed_support",
      "global_fallback", "global_fallback_relaxed_support">>

\* the candidates of tier i for the model and the query, each tier on its own
Tier(m, q, i) ==
    LET s == Threshold(q.min_support, m.min_support)
        c == Threshold(q.min_confidence, m.min_confidence)
    IN  CASE i = 1 -> CollectFromSlot(m, Slot(q.when), s, c, TierSource[1])
          [] i = 2 -> CollectFromSlot(m, Slot(q.when), 1, c, TierSource[2])
          [] i = 3 -> CollectGlobal(m, s, c, TierSource[3])
          [] i = 4 -> CollectGlobal(m, 1, c, TierSource[4])

TierEnabled(q, i) == i \in {1, 3} \/ q.allow_relaxed_fallback

Range(seq) == {seq[i] : i \in 1..Len(seq)}

\* C2: predict returns candidates of exactly one tier, the first non-empty
\* enabled tier in the order slot-strict, slot-relaxed, global-strict,
\* global-relaxed; every prediction carries that tier's source label; with no
\* non-empty enabled tier the result is the empty list, and nothing is raised.
C2_Cascade ==
    last.op = "predict" =>
        LET q == last.q
            out == last.out
            live == {i \in 1..4 : TierEnabled(q, i) /\ Tier(model, q, i) # <<>>}
        IN  /\ ~out.raised
            /\ live = {} => out.predictions = <<>>
            /\ live # {} =>
                 LET first == CHOOSE i \in live : \A j \in live : i <= j
                     tier == Tier(model, q, first)
                 IN  /\ out.predictions # <<>>
                     /\ Range(out.predictions) \subseteq Range(tier)
                     /\ \A p \in Range(out.predictions) : p.source = TierSource[first]
                     /\ (~q.one_per_entity /\ q.limit >= Len(tier))
                            => Range(out.predictions) = Range(tier)

\* C2 witness: the strict slot tier answers while the global tier holds a
\* candidate for an entity the answer does not name
C2_Witness ==
    /\ last.op = "predict"
    /\ last.out.predictions # <<>>
    /\ \A p \in Range(last.out.predictions) : p.source = "time_slot"
    /\ \E g \in Range(Tier(model, last.q, 4)) :
         \A p \in Range(Tier(model, last.q, 1)) : p.entity_id # g.entity_id

\* C6: every prediction has 0 <= confidence <= 1 and support >= 1, whatever
\* thresholds are passed, on a model left by fit, loaded from what save wrote,
\* or loaded from a legacy document holding only raw counts.
C6_ConfidenceBound ==
    last.op = "predict" =>
        /\ ~last.out.raised
        /\ \A p \in Range(last.out.predictions) :
             /\ 0 <= p.confidence /\ p.confidence <= 10000
             /\ p.support >= 1

\* C6 witness: predictions with support threshold 0 on a model loaded from a
\* legacy document
C6_Witness ==
    /\ last.op = "predict"
    /\ file.kind = "object"
    /\ "slot_entity_day_count" \notin DOMAIN file.payload
    /\ last.q.min_support = Some(0)
    /\ Len(last.out.predictions) >= 2

\* C7: with one_per_entity the result has no two predictions of one entity,
\* and the prediction kept for an entity has the maximal (confidence, support)
\* among the candidates the chosen tier produced for that entity.
C7_OnePerEntity ==
    (last.op = "predict" /\ last.q.one_per_entity) =>
        LET q == last.q
            r == last.out.predictions
            tier == Cascade(model, Slot(q.when), Threshold(q.min_support, model.min_support),
                            Threshold(q.min_confidence, model.min_confidence),
                            q.allow_relaxed_fallback)
        IN  /\ \A i, j \in 1..Len(r) : r[i].entity_id = r[j].entity_id => i = j
            /\ \A p \in Range(r) : \A c \in Range(tier) :
                 c.entity_id = p.entity_id => ~ScoreGreater(c, p)

\* C7 witness: the kept prediction beats another candidate of its entity
C7_Witness ==
    /\ last.op = "predict" /\ last.q.one_per_entity
    /\ \E p \in Range(last.out.predictions) :
         \E c \in Range(Cascade(model, Slot(last.q.when),
                                Threshold(last.q.min_support, model.min_support),
                                Threshold(last.q.min_confidence, model.min_confidence),
                                last.q.allow_relaxed_fallback)) :
            c.entity_id = p.entity_id /\ ScoreGreater(p, c)

\* ---- claims about ModelStore
\* the file is what save wrote for the model in saved
FileIsSaved == saved # None /\ file = SaveFile(saved[1])

\* m is reachable by construction, set_thresholds and fit: it is what a fit
\* leaves behind, up to its thresholds
Constructed(m) == [m EXCEPT !.min_support = 2, !.min_confidence = 5000] \in StoreModels

\* C5: for a model M made by construction, set_thresholds and fit,
\* load(save(M)) returns a model with M's stats() and with M's predict
\* result for every probed timestamp, limit, threshold override,
\* allow_relaxed_fallback and one_per_entity.
C5_RoundTrip ==
    (last.op = "load" /\ FileIsSaved /\ Constructed(saved[1])) =>
        /\ last.out # None
        /\ StatsModel(last.out[1]) = StatsModel(saved[1])
        /\ \A q \in Queries : PredictModel(last.out[1], q) = PredictModel(saved[1], q)

\* C5 witness: a load of the saved document of a model trained in two slots,
\* one of them with a two-digit hour, that predicts something
C5_Witness ==
    /\ last.op = "load" /\ FileIsSaved /\ Constructed(saved[1])
    /\ Len(saved[1].slot_total_actions) = 2
    /\ \E q \in Queries : PredictModel(saved[1], q).predictions # <<>>

\* C9 as claimed: load returns None when the file is absent, is not json, is
\* no object, has a malformed slot key or a non-numeric count, and the caller
\* (_build_model_from_options) then proceeds as with no model.
C9_AbsentOnCorrupt ==
    /\ (last.op = "load" /\ ~WellFormed(file)) => last.out = None
    /\ (last.op = "build" /\ ~WellFormed(file)) => ~last.loaded

\* the payload lacks the field, or holds it empty
Missing(payload, name) == PGet(payload, name, EmptyDict) = EmptyDict

\* C10 as claimed: the day-count backfill is applied first and the rebuilding
\* of the entity totals second.
C10_BackfillThenRebuild ==
    (last.op = "load" /\ WellFormed(file)) =>
        /\ last.out # None
        /\ last.out[1] = RebuildEntityTotals(BackfillDayCounts(ParseFields(file.payload))).m

\* C10 amended: missing entity totals are first rebuilt as the sums of the
\* per-state counts; then missing day counts are backfilled, the entity day
\* counts from the (possibly just rebuilt) entity totals and the per-state
\* day counts from the per-state counts.
C10_RebuildThenBackfill ==
    (last.op = "load" /\ WellFormed(file)) =>
        /\ last.out # None
        /\ LET p == file.payload
               m == last.out[1]
           IN  /\ (Missing(p, "slot_entity_total_count") /\ m.slot_entity_state_count # EmptyDict)
                      => m.slot_entity_total_count = Sum2(m.slot_entity_state_count)
               /\ (Missing(p, "global_entity_total_count")
                   /\ m.global_entity_state_count # EmptyDict)
                      => m.global_entity_total_count = Sum1(m.global_entity_state_count)
               /\ (Missing(p, "slot_entity_day_count") /\ m.slot_entity_total_count # EmptyDict)
                      => m.slot_entity_day_count = m.slot_entity_total_count
               /\ (Missing(p, "global_entity_day_count")
                   /\ m.global_entity_total_count # EmptyDict)
                      => m.global_entity_day_count = m.global_entity_total_count
               /\ (Missing(p, "slot_entity_state_day_count")
                   /\ m.slot_entity_state_count # EmptyDict)
                      => m.slot_entity_state_day_count = m.slot_entity_state_count
               /\ (Missing(p, "global_entity_state_day_count")
                   /\ m.global_entity_state_count # EmptyDict)
                      => m.global_entity_state_day_count = m.global_entity_state_count

\* C10 witness: a load of a document with neither entity totals nor day
\* counts that ends with entity day counts
C10_Witness ==
    /\ last.op = "load" /\ WellFormed(file)
    /\ Missing(file.payload, "slot_entity_total_count")
    /\ Missing(file.payload, "slot_entity_day_count")
    /\ last.out # None
    /\ last.out[1].slot_entity_day_count # EmptyDict
    /\ last.out[1].global_entity_day_count # EmptyDict

\* ---- claims about action_events_from_states
\* C1 as claimed: for every permutation of the snapshots the set of emitted
\* transition events (entity id, prior state, new state, timestamp) is the same.
C1_OrderIndependent ==
    emitted # None => Range(emitted[1].original) = Range(emitted[1].shuffled)

\* ---- claims about concurrent calls
\* C3: a predict, stats or to_dict call reads the aggregate state that the
\* last completed fit left (the complete pre-fit state, or the complete
\* post-fit state), never cleared or partly rebuilt counters; no call is
\* inside its locked block while another is, so two fits never interleave and
\* set_thresholds is serialized; and the counters a fit leaves are those of
\* its own events alone.
C3_FitAtomic ==
    /\ \A t \in Threads : threads[t].obs # None => threads[t].obs[1] = stable
    /\ \A t, u \in Threads : (t # u /\ InBlock(threads[t])) => ~InBlock(threads[u])
    /\ \A t \in Threads :
          (threads[t].op = "fit" /\ threads[t].pc = "exit")
              => Aggregates(model) = Aggregates(FitModel(model, threads[t].events))

\* C3 witness: a fit over a trained model has cleared the counters and is
\* part-way through its events while another thread's call waits for the lock
C3_Witness ==
    \E t, u \in Threads :
        /\ t # u
        /\ threads[t].pc = "loop"
        /\ threads[t].todo # <<>> /\ threads[t].todo # threads[t].events
        /\ stable.trained_actions > 0
        /\ Aggregates(model) # stable
        /\ threads[u].pc = "enter"

\* ---- claims about the calls that are no fit
\* C11: predict, stats and to_dict change nothing of the model, also when
\* predict is given threshold overrides; set_thresholds changes the two
\* thresholds and no counter map, total or trained-action count.
C11_ReadOnly ==
    [][ /\ last'.op \in {"predict", "stats", "to_dict"} => model' = model
        /\ last'.op = "set_thresholds" => Aggregates(model') = Aggregates(model) ]_vars

\* C11 witness: on a trained model whose thresholds set_thresholds changed,
\* predict with overrides has returned predictions
C11_Witness ==
    /\ last.op = "predict"
    /\ last.q.min_support # None /\ last.q.min_confidence # None
    /\ last.out.predictions # <<>>
    /\ model.trained_actions > 0
    /\ model.min_support = 1 /\ model.min_confidence = 10000

\* C12 as claimed: in every reachable state min_support >= 1 and
\* 0 <= min_confidence <= 1.
C12_ThresholdsInRange ==
    /\ model.min_support >= 1
    /\ 0 <= model.min_confidence /\ model.min_confidence <= 10000

ValidSnapshot(raw) ==
    /\ Strip(raw.entity_id) # "" /\ HasDot(Strip(raw.entity_id))
    /\ TsRaw(raw) # None /\ TsRaw(raw)[1].iso

ValidAt(list) == {i \in 1..Len(list) : ValidSnapshot(list[i])}
TsAt(list, i) == TsRaw(list[i])[1].at

\* i comes before j in timestamp order, equal timestamps in input order
Before(list, i, j) ==
    \/ TsAt(list, i) < TsAt(list, j)
    \/ TsAt(list, i) = TsAt(list, j) /\ i < j

\* i and j are neighbours among the valid snapshots of one entity
Adjacent(list, i, j) ==
    /\ Strip(list[i].entity_id) = Strip(list[j].entity_id)
    /\ Before(list, i, j)
    /\ ~\E k \in ValidAt(list) :
          /\ Strip(list[k].entity_id) = Strip(list[i].entity_id)
          /\ Before(list, i, k) /\ Before(list, k, j)

\* the neighbours whose state strings differ
ChangingPairs(list) ==
    { p \in ValidAt(list) \X ValidAt(list) :
        Adjacent(list, p[1], p[2]) /\ Strip(list[p[1]].state) # Strip(list[p[2]].state) }

PairEvent(list, p) ==
    [ entity_id |-> Strip(list[p[2]].entity_id), from_state |-> Strip(list[p[1]].state),
      to_state |-> Strip(list[p[2]].state), timestamp |-> TsAt(list, p[2]) ]

\* C14: no emitted event is a self-transition.
C14_NoSelfTransition ==
    emitted # None =>
        \A e \in Range(emitted[1].original) \cup Range(emitted[1].shuffled) :
            e.from_state # e.to_state

\* C14 witness: events were emitted although two valid snapshots of one
\* entity hold the same state
C14_Witness ==
    /\ emitted # None
    /\ emitted[1].original # <<>>
    /\ \E i, j \in ValidAt(snapshots) :
          /\ Adjacent(snapshots, i, j)
          /\ Strip(snapshots[i].state) = Strip(snapshots[j].state)

\* C15 as claimed: there is exactly one event for each pair of neighbouring
\* valid snapshots of an entity whose state strings differ.
C15_StateStringsDiffer ==
    emitted # None =>
        Len(emitted[1].original)
          = Cardinality({ p \in ValidAt(snapshots) \X ValidAt(snapshots) :
                            /\ Adjacent(snapshots, p[1], p[2])
                            /\ snapshots[p[1]].state # snapshots[p[2]].state })

\* C15 amended: per entity there is exactly one event for each pair of neighbouring
\* valid snapshots (timestamp order, equal timestamps in input order) whose
\* state strings, stripped of surrounding whitespace and compared with case
\* kept, differ; it carries the stripped earlier state as prior state and the
\* later snapshot's stripped state and timestamp; there is no other event, so
\* an entity with fewer than two valid snapshots has none.
C15_OneEventPerChange ==
    emitted # None =>
        LET out == emitted[1].original
            pairs == ChangingPairs(snapshots)
        IN  /\ Len(out) = Cardinality(pairs)
            /\ \A k \in 1..Len(out) : \E p \in pairs : out[k] = PairEvent(snapshots, p)
            /\ \A p \in pairs :
                 Cardinality({k \in 1..Len(out) : out[k] = PairEvent(snapshots, p)})
                   = Cardinality({r \in pairs : PairEvent(snapshots, r) = PairEvent(snapshots, p)})

\* C15 witness: two events of one entity, one of them between states that
\* differ in case only, next to an entity with a single valid snapshot
C15_Witness ==
    /\ emitted # None
    /\ \E e \in Range(emitted[1].original) : e.from_state = "on" /\ e.to_state = "On"
    /\ \E i \in ValidAt(snapshots) :
          \A j \in ValidAt(snapshots) :
              Strip(snapshots[j].entity_id) = Strip(snapshots[i].entity_id) => i = j

\* ------------------------------------------------ claims on the miners
\* the records none of the three readers drops
WellFormed3(list) == SelectSeq(list, ValidSnapshot)

\* C16: a record without entity id, with an id without a dot, or with a
\* missing or unparsable timestamp is dropped: event extraction, the
\* arrival-chain miner and the sequence miner each return what they return on
\* the input with those records removed
C16_MalformedDropped ==
    emitted # None =>
        LET e == emitted[1]
            clean == WellFormed3(snapshots)
        IN  /\ e.op = "action_events_from_states" => e.out = ActionEventsFromStates(clean)
            /\ e.op = "find_arrival_chains" =>
                   e.out = FindArrivalChains(clean, DefaultWindowMinutes, DefaultWindowMinutes)
            /\ e.op = "to_transitions" => e.out = ToTransitions(clean)

\* a malformed record in the input of a miner that found something
C16_Witness ==
    /\ emitted # None
    /\ emitted[1].op \in {"action_events_from_states", "find_arrival_chains", "to_transitions"}
    /\ emitted[1].out # <<>>
    /\ \E i \in 1..Len(snapshots) : ~ValidSnapshot(snapshots[i])

\* the events of the input, in the order find_arrival_chains reads them
Sorted == ToEvents(snapshots)
ArrivalsAt == {i \in 1..Len(Sorted) : IsArrival(Sorted[i])}
InWindow(ts, from, minutes) == from <= ts /\ ts <= from + minutes
DoorsFor(i) ==
    {j \in 1..Len(Sorted) :
        /\ IsDoorOpen(Sorted[j])
        /\ InWindow(Sorted[j].timestamp, Sorted[i].timestamp, DefaultWindowMinutes)}
FirstDoor(i) == CHOOSE j \in DoorsFor(i) : \A k \in DoorsFor(i) : j <= k
LightsFor(j) ==
    {k \in 1..Len(Sorted) :
        /\ IsLightOn(Sorted[k])
        /\ InWindow(Sorted[k].timestamp, Sorted[j].timestamp, DefaultWindowMinutes)}
ChainExpected(i) == DoorsFor(i) # {} /\ LightsFor(FirstDoor(i)) # {}

\* C17 as stated: a presence event at T gets a chain exactly when a door-open
\* event lies in [T, T + arrival_to_door_minutes] and a light-on event lies in
\* [T2, T2 + door_to_light_minutes] of the first such door at T2; no presence
\* event gets more than one chain
C17_ChainIffWindows ==
    (emitted # None /\ emitted[1].op = "find_arrival_chains") =>
        LET out == emitted[1].out
        IN  /\ \A i \in ArrivalsAt :
                   ChainExpected(i) <=>
                       \E k \in 1..Len(out) :
                           /\ out[k].arrival_entity = Sorted[i].entity_id
                           /\ out[k].arrival_at = Sorted[i].timestamp
            /\ Len(out) <= Cardinality(ArrivalsAt)

\* the input has a valid record of the entity at that time in one of the states
Recorded(entity_id, at, states) ==
    \E i \in ValidAt(snapshots) :
        /\ Strip(snapshots[i].entity_id) = entity_id
        /\ TsAt(snapshots, i) = at
        /\ StripLower(snapshots[i].state) \in states

\* C19: every chain has arrival_at <= door_at <= arrival_at + w1 and
\* door_at <= light_at <= door_at + w2; its arrival entity is a device_tracker
\* recorded in a home state, its door entity a door-like binary_sensor, lock or
\* sensor recorded in an open state, its light entity a light recorded on
C19_ChainShape ==
    (emitted # None /\ emitted[1].op = "find_arrival_chains") =>
        \A k \in 1..Len(emitted[1].out) :
            LET c == emitted[1].out[k]
            IN  /\ InWindow(c.door_at, c.arrival_at, DefaultWindowMinutes)
                /\ InWindow(c.light_at, c.door_at, DefaultWindowMinutes)
                /\ DomainOf(c.arrival_entity) = "device_tracker"
                /\ Recorded(c.arrival_entity, c.arrival_at, HOME_STATES)
                /\ DomainOf(c.door_entity) \in {"binary_sensor", "lock", "sensor"}
                /\ DoorLike(c.door_entity)
                /\ Recorded(c.door_entity, c.door_at, DOOR_OPEN_STATES)
                /\ DomainOf(c.light_entity) = "light"
                /\ Recorded(c.light_entity, c.light_at, LIGHT_ON_STATES)

\* a chain found although a sensor that is no door reported before the door
C19_Witness ==
    /\ emitted # None
    /\ emitted[1].op = "find_arrival_chains"
    /\ \E k \in 1..Len(emitted[1].out) :
           \E i \in ValidAt(snapshots) :
               /\ snapshots[i].entity_id = "binary_sensor.motion"
               /\ TsAt(snapshots, i) >= emitted[1].out[k].arrival_at
               /\ TsAt(snapshots, i) < emitted[1].out[k].door_at

\* the days on which the input has an arrival event of the tracker
ArrivalDaysOf(entity_id) ==
    {Day(Sorted[i].timestamp) : i \in {a \in ArrivalsAt : Sorted[a].entity_id = entity_id}}

\* C18 as stated: arrival_days of a suggestion is the number of distinct days
\* on which its presence entity had any arrival event, chain or no chain
C18_AnyArrivalDay ==
    (emitted # None /\ emitted[1].op = "build_routine_suggestions") =>
        \A k \in 1..Len(emitted[1].out) :
            emitted[1].out[k].arrival_days =
                Cardinality(ArrivalDaysOf(emitted[1].out[k].arrival_entity))

\* C20: support_days of a suggestion never exceeds its arrival_days, so its
\* confidence never exceeds 1
C20_SupportWithinArrivals ==
    (emitted # None /\ emitted[1].op = "build_routine_suggestions") =>
        \A k \in 1..Len(emitted[1].out) :
            /\ emitted[1].out[k].support_days <= emitted[1].out[k].arrival_days
            /\ emitted[1].out[k].confidence <= 10000

\* a suggestion supported on fewer days than its tracker arrived with a chain,
\* from an input that holds two chains
C20_Witness ==
    /\ emitted # None
    /\ emitted[1].op = "build_routine_suggestions"
    /\ \E k \in 1..Len(emitted[1].out) :
           /\ emitted[1].out[k].support_days < emitted[1].out[k].arrival_days
           /\ emitted[1].out[k].confidence < 10000

\* ---------------------------------------- claims on the sequence miner
\* the transitions of the input, in the order build_sequence_suggestions
\* reads them
Mined == ToTransitions(snapshots)

\* the transitions on another entity that yield a trigger signature and lie
\* at most window_minutes before the transition at idx, and not after it
TriggersInWindow(idx, window_minutes) ==
    {k \in 1..Len(Mined) :
        /\ Mined[k].entity_id # Mined[idx].entity_id
        /\ TriggerSignature(Mined[k]).sig # None
        /\ Mined[k].timestamp <= Mined[idx].timestamp
        /\ Mined[idx].timestamp - Mined[k].timestamp <= window_minutes}

\* C21 as stated: an action is never paired with a trigger more than
\* window_minutes before it; of the transitions on other entities within the
\* window that yield a trigger signature the one nearest in time is chosen;
\* an action without such a transition gets no pair
C21_NearestInWindow ==
    (emitted # None /\ emitted[1].op = "pair") =>
        \A idx \in 1..Len(Mined) :
            ActionSignature(Mined[idx]).sig # None =>
                LET inWindow == TriggersInWindow(idx, emitted[1].window_minutes)
                    paired == {k \in 1..Len(emitted[1].out) : emitted[1].out[k].action = idx}
                IN  /\ Cardinality(paired) <= 1
                    /\ paired = {} <=> inWindow = {}
                    /\ \A k \in paired :
                           /\ emitted[1].out[k].trigger \in inWindow
                           /\ \A other \in inWindow :
                                  Mined[other].timestamp
                                      <= Mined[emitted[1].out[k].trigger].timestamp

\* the calls of build_sequence_suggestions that returned
Returned ==
    /\ emitted # None
    /\ emitted[1].op = "build_sequence_suggestions"
    /\ ~emitted[1].raised

\* the call of the example: window 30 minutes, min_support_days 3,
\* min_confidence 0.5
ExampleCall ==
    /\ Returned
    /\ emitted[1].window_minutes = 30
    /\ emitted[1].min_support_days = 3
    /\ emitted[1].min_confidence = 5000

\* exactly one rule, motion -> light.hall, on 5 of 5 days
OneRuleOfFive ==
    /\ Len(emitted[1].out) = 1
    /\ emitted[1].out[1].trigger.entity_id = "binary_sensor.motion"
    /\ emitted[1].out[1].action.entity_id = "light.hall"
    /\ emitted[1].out[1].support_days = 5
    /\ emitted[1].out[1].confidence = 10000

QuietOffTimes == {t \in OffTimes : ~(t[1] <= t[2] /\ t[2] - t[1] <= 30)}

C23_RuleShape ==
    Returned =>
        \A k \in 1..Len(emitted[1].out) :
            LET rule == emitted[1].out[k]
            IN  /\ DomainOf(rule.action.entity_id) \in ACTION_DOMAINS
                /\ rule.trigger.entity_id # rule.action.entity_id
                /\ rule.trigger.value \notin {Text(state) : state \in NoiseStates}
                /\ rule.action.value \notin {Text(state) : state \in NoiseStates}

\* rules returned for a history in which a transition of no controllable
\* domain has a trigger within the window
C23_Witness ==
    /\ Returned
    /\ emitted[1].out # <<>>
    /\ \E idx \in 1..Len(Mined) :
           /\ Mined[idx].domain \notin ACTION_DOMAINS
           /\ Mined[idx].to_state \notin NoiseStates
           /\ TriggersInWindow(idx, emitted[1].window_minutes) # {}

\* every rule the returned call found before the cut, in any order
AllRules ==
    AllSequenceRules(Mined, emitted[1].window_minutes, emitted[1].min_support_days,
                     emitted[1].min_confidence)

\* the returned rules pass both thresholds, stand in non-increasing
\* (confidence, support_days) order, and no rule that was cut off ranks above
\* a returned one
RankedAndFiltered ==
    LET out == emitted[1].out
        returned == {out[k] : k \in 1..Len(out)}
        all == {AllRules[k] : k \in 1..Len(AllRules)}
    IN  /\ returned \subseteq all
        /\ \A rule \in returned :
               /\ rule.support_days >= emitted[1].min_support_days
               /\ rule.confidence >= emitted[1].min_confidence
        /\ \A k \in 1..(Len(out) - 1) : ~SuggestionGreater(out[k + 1], out[k])
        /\ \A rule \in all \ returned : \A kept \in returned : ~SuggestionGreater(rule, kept)

\* C24 as stated: at most limit rules are returned for every value of limit
\* (none for a limit of 0 or less), each passing both thresholds, in
\* non-increasing (confidence, support_days) order, none of the rules cut off
\* ranking above a returned one
C24_AtMostLimit ==
    Returned => (Len(emitted[1].out) <= Max(0, emitted[1].limit) /\ RankedAndFiltered)

\* C24: at most max(1, limit) rules are returned, each passing both
\* thresholds, in non-increasing (confidence, support_days) order, none of the
\* rules cut off ranking above a returned one
C24_AtMostLimitOrOne ==
    Returned =>
        /\ Len(emitted[1].out) <= Max(1, emitted[1].limit)
        /\ Len(emitted[1].out) = Min(Len(AllRules), Max(1, emitted[1].limit))
        /\ RankedAndFiltered

\* a call that cut a rule off
C24_Witness ==
    /\ Returned
    /\ emitted[1].limit = 1
    /\ Len(emitted[1].out) = 1
    /\ Len(AllRules) > 1

\* the transition a call of _trigger_signature classified, with a new state
\* that is no noise state
Classified ==
    /\ emitted # None
    /\ emitted[1].op = "trigger_signature"
    /\ emitted[1].ev.to_state \notin NoiseStates

OldNumber == TryFloat(emitted[1].ev.from_state)
NewNumber == TryFloat(emitted[1].ev.to_state)

\* both states are finite numbers more than 0.01 apart
Moved ==
    /\ OldNumber # None /\ ~OldNumber[1].nan
    /\ NewNumber # None /\ ~NewNumber[1].nan
    /\ Abs(NewNumber[1].milli - OldNumber[1].milli) > 10

\* the kind of the signature returned
KindIs(kind) ==
    /\ ~emitted[1].result.raised
    /\ emitted[1].result.sig # None
    /\ emitted[1].result.sig[1].kind = kind

\* the trend signature says up for new > old, down for new < old, and carries
\* the rounded new value
TrendIsRight ==
    KindIs("numeric_trend") =>
        /\ emitted[1].result.sig[1].op =
               (IF NewNumber[1].milli > OldNumber[1].milli THEN "up" ELSE "down")
        /\ emitted[1].result.sig[1].value = Approx(RoundHalfEven(NewNumber[1].milli))

C26_SupportWithinAntecedent ==
    Returned =>
        \A k \in 1..Len(emitted[1].out) :
            /\ emitted[1].out[k].support_days <= emitted[1].out[k].antecedent_days
            /\ emitted[1].out[k].confidence <= 10000

\* ---------------------------------------- claims on the request layer
\* C27 as stated: once a train request has completed and saved a model with
\* at least one trained action, every later predict or model-info request,
\* also one that overlaps the save of a later train request, loads a trained
\* model and never falls back to a fresh untrained one
C27_LoadsTrainedModel ==
    \A t \in Threads :
        (threads[t].pc = "respond" /\ threads[t].op \in Lookups /\ threads[t].after_train) =>
            /\ threads[t].loaded
            /\ threads[t].model[1].trained_actions >= 1

\* C28 as stated: when all train and train-from-events requests have
\* finished, last_trained_at and last_training_samples are those of the run
\* whose model was saved last
C28_GlobalsOfLastSave ==
    ((\A t \in Threads : threads[t].pc = "idle") /\ saved # None) =>
        /\ globals.last_trained_at = Some(saved[1].run)
        /\ globals.last_training_samples = saved[1].samples

\* ------------------------------------------------ claims on the counters
\* the events of the last fit whose trimmed, lower-cased new state is no noise
Counted == {i \in 1..Len(last.events) : StripLower(last.events[i].to_state) \notin NoiseStates}

\* the state keys of a map entity -> state -> count
StateKeys(entity_states) ==
    UNION {DKeys(entity_states[i][2]) : i \in 1..Len(entity_states)}

\* in one scope: 1 <= state day-count <= entity day-count <= entity raw count,
\* and state day-count <= state raw count
DayCountsBounded(state_days, entity_days, state_counts, entity_counts) ==
    /\ DKeys(state_days) = DKeys(entity_days)
    /\ \A i \in 1..Len(state_days) :
           LET entity_id == state_days[i][1]
           IN  \A j \in 1..Len(state_days[i][2]) :
                   LET state == state_days[i][2][j][1]
                       days == state_days[i][2][j][2]
                   IN  /\ 1 <= days
                       /\ days <= DGet(entity_days, entity_id, 0)
                       /\ DGet(entity_days, entity_id, 0) <= DGet(entity_counts, entity_id, 0)
                       /\ days <= DGet(DGet(state_counts, entity_id, EmptyDict), state, 0)

\* C29: after fit, trained_actions = global_total_actions = the sum of the
\* slot totals = the sum of the global entity totals = the number of events
\* whose trimmed, lower-cased new state is no noise; no counter map has a
\* noise state as key; in every slot and globally, for every entity and
\* state, 1 <= state day-count <= entity day-count <= entity raw count and
\* state day-count <= state raw count
C29_CountersAgree ==
    last.op = "fit" =>
        /\ model.trained_actions = Cardinality(Counted)
        /\ model.global_total_actions = Cardinality(Counted)
        /\ SumValues(model.slot_total_actions) = Cardinality(Counted)
        /\ SumValues(model.global_entity_total_count) = Cardinality(Counted)
        /\ StateKeys(model.global_entity_state_count) \cap NoiseStates = {}
        /\ StateKeys(model.global_entity_state_day_count) \cap NoiseStates = {}
        /\ \A i \in 1..Len(model.slot_entity_state_count) :
               StateKeys(model.slot_entity_state_count[i][2]) \cap NoiseStates = {}
        /\ \A i \in 1..Len(model.slot_entity_state_day_count) :
               StateKeys(model.slot_entity_state_day_count[i][2]) \cap NoiseStates = {}
        /\ DayCountsBounded(model.global_entity_state_day_count, model.global_entity_day_count,
                            model.global_entity_state_count, model.global_entity_total_count)
        /\ DKeys(model.slot_entity_state_day_count) = DKeys(model.slot_total_actions)
        /\ \A i \in 1..Len(model.slot_entity_state_day_count) :
               LET slot == model.slot_entity_state_day_count[i][1]
               IN  DayCountsBounded(model.slot_entity_state_day_count[i][2],
                                    DGet(model.slot_entity_day_count, slot, EmptyDict),
                                    DGet(model.slot_entity_state_count, slot, EmptyDict),
                                    DGet(model.slot_entity_total_count, slot, EmptyDict))

\* a fit that dropped a noise event and counted two events of one entity on
\* one day
C29_Witness ==
    /\ last.op = "fit"
    /\ Cardinality(Counted) < Len(last.events)
    /\ \E i \in 1..Len(model.global_entity_day_count) :
           model.global_entity_day_count[i][2]
               < DGet(model.global_entity_total_count, model.global_entity_day_count[i][1], 0)

\* --------------------------------------- claims on the legacy addon
\* the threads between training_in_progress = True and its reset
Running == {t \in LegacyThreads : threads[t].pc \in {"training", "reset"}}

\* C30 as stated: at most one training run is in progress at any time, and
\* the flag is False again when no run is left
C30_OneRunAtATime ==
    /\ Cardinality(Running) <= 1
    /\ (\A t \in LegacyThreads : threads[t].pc = "idle") => ~globals.training_in_progress

====
